---- MODULE Spec2Model ----
(***************************************************************************)
(* A model of the fuse-rs crate (crates/fuse-rs): the record index, the    *)
(* bitap kernel and its chunking searcher, and the extended-search         *)
(* matchers and query parser.                                              *)
(*                                                                         *)
(* Strings are sequences of one-character strings, so that their           *)
(* characters can be inspected.  Scores are exact fractions <<n, d>>.      *)
(***************************************************************************)
EXTENDS Integers, Sequences, FiniteSets, TLC

VARIABLES
    keys,       \* FuseIndex.keys
    records,    \* FuseIndex.records
    cache,      \* FuseIndex.norm.cache: token count -> norm
    registry,   \* REGISTERED_SEARCHERS
    threads,    \* the threads that share one Norm: position and locals
    op,         \* the last operation called
    arg,        \* its input
    res         \* its result

vars == <<keys, records, cache, registry, threads, op, arg, res>>

---------------------------------------------------------------------------
(* Bounds of the model *)

MaxRecords == 3
MaxSource == 2

---------------------------------------------------------------------------
(* Generic helpers *)

Range(s) == {s[k] : k \in 1..Len(s)}

SeqsUpTo(S, n) == UNION {[1..k -> S] : k \in 0..n}

None == [some |-> FALSE]
Some(v) == [some |-> TRUE, v |-> v]

---------------------------------------------------------------------------
(* serde_json::Value: every value has the same four fields *)

JNull == [t |-> "null", s |-> <<>>, a |-> <<>>, o |-> <<>>]
JStr(s) == [t |-> "str", s |-> s, a |-> <<>>, o |-> <<>>]
JNum(s) == [t |-> "num", s |-> s, a |-> <<>>, o |-> <<>>]
JBool(s) == [t |-> "bool", s |-> s, a |-> <<>>, o |-> <<>>]
JArr(a) == [t |-> "arr", s |-> <<>>, a |-> a, o |-> <<>>]
\* an object is a sequence of <<key, value>> pairs with distinct keys
JObj(o) == [t |-> "obj", s |-> <<>>, a |-> <<>>, o |-> o]

\* the segments that parse as usize, and their values
NumericSegments == {"0", "1", "2"}
ParseUsize(seg) == CASE seg = "0" -> 0 [] seg = "1" -> 1 [] seg = "2" -> 2

\* Value::get(usize): an element of an array, None on anything else
JGetIndex(v, n) ==
    IF v.t = "arr" /\ n < Len(v.a) THEN Some(v.a[n + 1]) ELSE None

\* Value::get(&str): a member of an object, None on anything else
JGetKey(v, key) ==
    IF v.t = "obj" /\ \E k \in 1..Len(v.o) : v.o[k][1] = key
    THEN Some(v.o[CHOOSE k \in 1..Len(v.o) : v.o[k][1] = key][2])
    ELSE None

\* the value a segment selects in get_value: Value::get(usize) when the
\* segment parses as usize, Value::get(&str) when it does not
segment_value(obj, key) ==
    IF key \in NumericSegments
    THEN JGetIndex(obj, ParseUsize(key))
    ELSE JGetKey(obj, key)

RECURSIVE get_value(_, _, _, _, _)
RECURSIVE get_value_items(_, _, _, _, _, _)

\* get_value(path, obj, list, index, is_array) with index counted from 0;
\* returns the list and the flag it leaves behind
get_value(path, obj, list, index, is_array) ==
    IF index >= Len(path)
    THEN IF obj.t \in {"str", "bool", "num"}
         THEN [list |-> Append(list, obj.s), is_array |-> is_array]
         ELSE [list |-> list, is_array |-> is_array]
    ELSE LET value == segment_value(obj, path[index + 1])
         IN  IF ~value.some
             THEN [list |-> list, is_array |-> is_array]
             ELSE IF value.v.t = "arr"
                  THEN get_value_items(path, value.v.a, 1, list, index + 1, TRUE)
                  ELSE get_value(path, value.v, list, index + 1, is_array)

\* the loop over the items of an array value
get_value_items(path, items, k, list, index, is_array) ==
    IF k > Len(items)
    THEN [list |-> list, is_array |-> is_array]
    ELSE LET r == get_value(path, items[k], list, index, is_array)
         IN  get_value_items(path, items, k + 1, r.list, index, r.is_array)

\* <Vec<String> as Get>::get
get(path, obj) ==
    LET r == get_value(path, obj, <<>>, 0, FALSE)
    IN  IF r.list = <<>> THEN None
        ELSE IF r.is_array THEN Some([kind |-> "Array", arr |-> r.list, s |-> <<>>])
        ELSE Some([kind |-> "String", arr |-> <<>>, s |-> r.list[1]])

---------------------------------------------------------------------------
(* Norm: the field-length norm, in thousandths *)

IsSpace(c) == c = " "

\* the number of maximal runs of non-space characters
NumTokens(value) ==
    Cardinality({k \in 1..Len(value) :
        ~IsSpace(value[k]) /\ (k = 1 \/ IsSpace(value[k - 1]))})

\* round(1000 / sqrt(k)) for the token counts the model's strings can have
\* (weight 1, mantissa 3)
RoundedNorm ==
    [k \in 1..8 |-> CHOOSE r \in 0..1000 :
        /\ (2 * r - 1) * (2 * r - 1) * k <= 4000000
        /\ 4000000 < (2 * r + 1) * (2 * r + 1) * k]

\* the norm computed by Norm::get for k tokens; 1 / 0^0.5 is the float
\* infinity
ComputeNorm(k) ==
    IF k = 0 THEN [inf |-> TRUE, milli |-> 0]
    ELSE [inf |-> FALSE, milli |-> RoundedNorm[k]]

\* Norm::get: the value returned and the cache afterwards
NormGet(c, value) ==
    LET n == NumTokens(value)
    IN  IF n \in DOMAIN c
        THEN [n |-> c[n], cache |-> c]
        ELSE LET v == ComputeNorm(n)
             IN  [n |-> v, cache |-> [k \in DOMAIN c \cup {n} |->
                                         IF k = n THEN v ELSE c[k]]]

---------------------------------------------------------------------------
(* FuseIndex *)

\* sample getters a key may carry (Key.get_fn: fn(&Value) -> &str)
GetFnApply(f, doc) ==
    IF f = "title_or_blank"
    THEN LET t == JGetKey(doc, "title")
         IN  IF t.some /\ t.v.t = "str" THEN t.v.s ELSE <<>>
    ELSE <<"k">>

Key(path, get_fn) == [path |-> path, get_fn |-> get_fn]
NoGetFn == "none"

IndexValue(v, n, i) == [v |-> v, n |-> n, i |-> i]
NoNorm == [inf |-> FALSE, milli |-> 0]

StringRecord(i, v, n) ==
    [kind |-> "String", i |-> i, v |-> v, n |-> n, entries |-> <<>>]
\* entries maps a key slot (the key's position, from 0) to its entry
ObjectRecord(i, entries) ==
    [kind |-> "Object", i |-> i, v |-> <<>>, n |-> NoNorm, entries |-> entries]

Single(iv) == [kind |-> "Single", val |-> iv, arr |-> <<>>]
Array(ivs) == [kind |-> "Array", val |-> IndexValue(<<>>, NoNorm, None), arr |-> ivs]

Insert(entries, slot, entry) ==
    [k \in DOMAIN entries \cup {slot} |-> IF k = slot THEN entry ELSE entries[k]]

size(recs) == Len(recs)

\* FuseIndex::get_value_for_key
get_value_for_key(doc, key) ==
    IF key.get_fn # NoGetFn
    THEN Some([kind |-> "String", arr |-> <<>>, s |-> GetFnApply(key.get_fn, doc)])
    ELSE get(key.path, doc)

\* FuseIndex::process_string_value: the entries and the cache afterwards
process_string_value(c, s, key_index, entries) ==
    LET g == NormGet(c, s)
    IN  [entries |-> Insert(entries, key_index, Single(IndexValue(s, g.n, None))),
         cache |-> g.cache]

RECURSIVE collect_sub_records_from(_, _, _, _)
\* the stack loop of collect_sub_records: the stack holds (k, arr[k]) for the
\* first `top` elements and is popped from its top
collect_sub_records_from(c, arr, top, sub_records) ==
    IF top = 0
    THEN [sub_records |-> sub_records, cache |-> c]
    ELSE LET value == arr[top]
         IN  IF value = <<>>
             THEN collect_sub_records_from(c, arr, top - 1, sub_records)
             ELSE LET g == NormGet(c, value)
                  IN  collect_sub_records_from(g.cache, arr, top - 1,
                          Append(sub_records, IndexValue(value, g.n, Some(top - 1))))

\* FuseIndex::collect_sub_records
collect_sub_records(c, arr) == collect_sub_records_from(c, arr, Len(arr), <<>>)

\* FuseIndex::process_array_value
process_array_value(c, arr, key_index, entries) ==
    LET r == collect_sub_records(c, arr)
    IN  [entries |-> IF r.sub_records # <<>>
                     THEN Insert(entries, key_index, Array(r.sub_records))
                     ELSE entries,
         cache |-> r.cache]

RECURSIVE add_object_keys(_, _, _, _, _)
\* the loop of add_object over the keys, from key_index (counted from 0)
add_object_keys(c, ks, doc, key_index, entries) ==
    IF key_index >= Len(ks)
    THEN [entries |-> entries, cache |-> c]
    ELSE LET value == get_value_for_key(doc, ks[key_index + 1])
             r == IF ~value.some THEN [entries |-> entries, cache |-> c]
                  ELSE IF value.v.kind = "String"
                       THEN process_string_value(c, value.v.s, key_index, entries)
                       ELSE process_array_value(c, value.v.arr, key_index, entries)
         IN  add_object_keys(r.cache, ks, doc, key_index + 1, r.entries)

\* FuseIndex::add_object
add_object(ix, doc, idx) ==
    LET r == add_object_keys(ix.cache, ix.keys, doc, 0, <<>>)
    IN  [ix EXCEPT !.records = Append(@, ObjectRecord(idx, r.entries)),
                   !.cache = r.cache]

\* FuseIndex::add_string
add_string(ix, doc, idx) ==
    IF doc.s = <<>>
    THEN ix
    ELSE LET g == NormGet(ix.cache, doc.s)
         IN  [ix EXCEPT !.records = Append(@, StringRecord(idx, doc.s, g.n)),
                        !.cache = g.cache]

\* FuseIndex::add, on the index ix = [keys, records, cache]
add(ix, doc) ==
    LET idx == size(ix.records)
    IN  IF doc.t = "str" THEN add_string(ix, doc, idx) ELSE add_object(ix, doc, idx)

\* remove_at with the renumbering started one position too late
remove_at_renumber_late(recs, idx) ==
    LET removed == [p \in 1..(Len(recs) - 1) |->
                       IF p <= idx THEN recs[p] ELSE recs[p + 1]]
    IN  [p \in 1..Len(removed) |->
            IF p - 1 > idx THEN [removed[p] EXCEPT !.i = @ - 1] ELSE removed[p]]

\* FuseIndex::remove_at, for idx < size
remove_at(recs, idx) ==
    LET removed == [p \in 1..(Len(recs) - 1) |->
                       IF p <= idx THEN recs[p] ELSE recs[p + 1]]
    IN  [p \in 1..Len(removed) |->
            IF p - 1 >= idx THEN [removed[p] EXCEPT !.i = @ - 1] ELSE removed[p]]

RECURSIVE add_all(_, _, _)
add_all(ix, source, k) ==
    IF k > Len(source) THEN ix ELSE add_all(add(ix, source[k]), source, k + 1)

\* FuseIndex::set_source
set_source(ix, source) == add_all([ix EXCEPT !.records = <<>>], source, 1)

---------------------------------------------------------------------------
(* The documents and key lists the index is driven with *)

Docs == {
    JStr(<<>>),
    JStr(<<"a", " ", "b">>),
    JObj(<< <<"title", JStr(<<>>)>>,
            <<"tags", JArr(<<JStr(<<"x">>), JStr(<<>>), JStr(<<"y", " ", "z">>)>>)>> >>),
    JObj(<< <<"title", JStr(<<"t">>)>>, <<"tags", JArr(<<JStr(<<>>)>>)>> >>)
}

KeyLists == {
    <<>>,
    << Key(<<"title">>, NoGetFn), Key(<<"tags">>, NoGetFn) >>,
    << Key(<<"title">>, "title_or_blank") >>
}

Index == [keys |-> keys, records |-> records, cache |-> cache]

InitIndex ==
    /\ keys = <<>>
    /\ records = <<>>
    /\ cache = <<>>
    /\ registry = <<>>
    /\ threads = <<>>
    /\ op = "new"
    /\ arg = <<>>
    /\ res = <<>>

SetKeys(ks) ==
    /\ keys' = ks
    /\ op' = "set_keys"
    /\ arg' = ks
    /\ UNCHANGED <<registry, threads, records, cache, res>>

Add(doc) ==
    /\ Len(records) < MaxRecords
    /\ LET ix == add(Index, doc)
       IN  /\ records' = ix.records
           /\ cache' = ix.cache
    /\ op' = "add"
    /\ arg' = doc
    /\ UNCHANGED <<registry, threads, keys, res>>

RemoveAt(idx) ==
    /\ idx < size(records)
    /\ records' = remove_at(records, idx)
    /\ op' = "remove_at"
    /\ arg' = idx
    /\ UNCHANGED <<registry, threads, keys, cache, res>>

SetSource(source) ==
    /\ LET ix == set_source(Index, source)
       IN  /\ records' = ix.records
           /\ cache' = ix.cache
    /\ op' = "set_source"
    /\ arg' = source
    /\ UNCHANGED <<registry, threads, keys, res>>

NextIndex ==
    \/ \E ks \in KeyLists : SetKeys(ks)
    \/ \E doc \in Docs : Add(doc)
    \/ \E idx \in 0..(MaxRecords - 1) : RemoveAt(idx)
    \/ \E source \in SeqsUpTo(Docs, MaxSource) : SetSource(source)

SpecIndex == InitIndex /\ [][NextIndex]_vars

---------------------------------------------------------------------------
(* Strings and scores *)

\* str::to_lowercase on the model's characters
LowerChar(c) == IF c = "A" THEN "a" ELSE IF c = "B" THEN "b" ELSE c
to_lowercase(s) == [k \in 1..Len(s) |-> LowerChar(s[k])]

\* whether pat occurs in text at offset idx (from 0)
OccursAt(text, pat, idx) ==
    /\ idx + Len(pat) <= Len(text)
    /\ \A k \in 1..Len(pat) : text[idx + k] = pat[k]

\* StrExt::index_of(pat, Some(from)): the first offset >= from at which pat
\* occurs, if any
index_of(text, pat, from) ==
    LET hits == {idx \in from..Len(text) : OccursAt(text, pat, idx)}
    IN  IF hits = {} THEN None
        ELSE Some(CHOOSE idx \in hits : \A other \in hits : idx <= other)

starts_with(text, pat) == OccursAt(text, pat, 0)
ends_with(text, pat) ==
    Len(pat) <= Len(text) /\ OccursAt(text, pat, Len(text) - Len(pat))

RECURSIVE Gcd(_, _)
Gcd(x, y) == IF y = 0 THEN x ELSE Gcd(y, x % y)

\* the f64 value n / d, for n >= 0 and d > 0, in lowest terms
Frac(n, d) == LET g == Gcd(n, d) IN <<n \div g, d \div g>>
FZero == <<0, 1>>
FOne == <<1, 1>>
FLeq(x, y) == x[1] * y[2] <= y[1] * x[2]
FLt(x, y) == x[1] * y[2] < y[1] * x[2]
FMin(x, y) == IF FLeq(x, y) THEN x ELSE y
FMax(x, y) == IF FLeq(x, y) THEN y ELSE x
FAdd(x, y) == Frac(x[1] * y[2] + y[1] * x[2], x[2] * y[2])
FDivInt(x, k) == Frac(x[1], x[2] * k)

Min(x, y) == IF x <= y THEN x ELSE y
Abs(x) == IF x < 0 THEN -x ELSE x

---------------------------------------------------------------------------
(* The bitap kernel: search/bitmap *)

\* search::bitmap::constants::MAX_BITS
MAX_BITS == 32

\* usize::MAX, the "no location yet" value of best_location and the value a
\* wrapping 0 - 1 gives; the largest integer TLC represents stands for
\* 2^64 - 1
USIZE_MAX == 2147483647

\* a u64 is the set of its set bit positions
BitsBelow(k) == 0..(k - 1)
Shl1(bits) == {b + 1 : b \in bits} \cap BitsBelow(64)

\* create_pattern_alphabet: bit len-i-1 for the character at offset i
create_pattern_alphabet(pattern) ==
    [c \in Range(pattern) |->
        {Len(pattern) - k : k \in {q \in 1..Len(pattern) : pattern[q] = c}}]

\* compute_score without the ignore_location shortcut
compute_score_with_location(pattern_len, errors, current_location, expected_location, o) ==
    LET accuracy == Frac(errors, pattern_len)
        proximity == Abs(expected_location - current_location)
    IN  IF o.distance = 0
        THEN (IF proximity # 0 THEN FOne ELSE accuracy)
        ELSE FAdd(accuracy, Frac(proximity, o.distance))

\* compute_score, with the pattern given by its length
compute_score(pattern_len, errors, current_location, expected_location, o) ==
    LET accuracy == Frac(errors, pattern_len)
        proximity == Abs(expected_location - current_location)
    IN  IF o.ignore_location THEN accuracy
        ELSE IF o.distance = 0
             THEN (IF proximity # 0 THEN FOne ELSE accuracy)
             ELSE FAdd(accuracy, Frac(proximity, o.distance))

RECURSIVE convert_mask_loop(_, _, _, _, _)
\* the for loop of convert_mask_to_indices at position i (from 0); start is
\* -1 outside a run
convert_mask_loop(match_mask, min_len, i, start, indices) ==
    IF i >= Len(match_mask)
    THEN [start |-> start, indices |-> indices]
    ELSE LET is_match == match_mask[i + 1]
         IN  IF is_match /\ start = -1
             THEN convert_mask_loop(match_mask, min_len, i + 1, i, indices)
             ELSE IF ~is_match /\ start # -1
                  THEN convert_mask_loop(match_mask, min_len, i + 1, -1,
                           IF (i - 1) - start + 1 >= min_len
                           THEN Append(indices, <<start, i - 1>>)
                           ELSE indices)
                  ELSE convert_mask_loop(match_mask, min_len, i + 1, start, indices)

\* convert_mask_to_indices without the minimum length: every run is emitted
convert_mask_to_indices_unfiltered(match_mask, min_match_char_length) ==
    LET r == convert_mask_loop(match_mask, 1, 0, -1, <<>>)
    IN  IF match_mask # <<>> /\ match_mask[Len(match_mask)] /\ r.start # -1
        THEN Append(r.indices, <<r.start, Len(match_mask) - 1>>)
        ELSE r.indices

\* convert_mask_to_indices
convert_mask_to_indices(match_mask, min_match_char_length) ==
    LET r == convert_mask_loop(match_mask, min_match_char_length, 0, -1, <<>>)
    IN  IF /\ match_mask # <<>>
           /\ match_mask[Len(match_mask)]
           /\ r.start # -1
           /\ Len(match_mask) - r.start >= min_match_char_length
        THEN Append(r.indices, <<r.start, Len(match_mask) - 1>>)
        ELSE r.indices

\* the outcomes of a call: a value, an error value, or an abort of the thread
\* (index out of bounds, arithmetic overflow in a build that checks it)
Ok(is_match, score, indices, match_mask) ==
    [kind |-> "ok", is_match |-> is_match, score |-> score,
     indices |-> indices, match_mask |-> match_mask, err |-> <<>>]
Err(e) ==
    [kind |-> "err", is_match |-> FALSE, score |-> FOne,
     indices |-> None, match_mask |-> <<>>, err |-> e]
Panic ==
    [kind |-> "panic", is_match |-> FALSE, score |-> FOne,
     indices |-> None, match_mask |-> <<>>, err |-> <<>>]
\* a loop that never ends
Hang ==
    [kind |-> "hang", is_match |-> FALSE, score |-> FOne,
     indices |-> None, match_mask |-> <<>>, err |-> <<>>]

PatternLengthTooLarge(n) == <<"PatternLengthTooLarge", n>>

RECURSIVE pre_pass(_, _, _, _, _, _, _)
\* the exact-occurrence loop of search: lowers the threshold to the best exact
\* score and marks the occurrences in the mask
pre_pass(text, pattern, o, expected_location, current_threshold, best_location, match_mask) ==
    LET found == index_of(text, pattern, best_location)
    IN  IF ~found.some
        THEN [current_threshold |-> current_threshold,
              match_mask |-> match_mask]
        ELSE LET index == found.v
                 score == compute_score(Len(pattern), 0, index,
                                        expected_location, o)
             IN  pre_pass(text, pattern, o, expected_location,
                     FMin(score, current_threshold),
                     index + Len(pattern),
                     IF match_mask = <<>> THEN match_mask
                     ELSE [k \in 1..Len(match_mask) |->
                              IF (k - 1) \in index..(index + Len(pattern) - 1)
                              THEN TRUE ELSE match_mask[k]])

RECURSIVE binary_search(_, _, _, _, _, _)
\* the binary search of search for the widest window at i errors; the value
\* of bin_mid when the loop ends
binary_search(c, i, current_threshold, bin_min, bin_mid, bin_max) ==
    IF ~(bin_min < bin_mid) THEN bin_mid
    ELSE LET score == compute_score(c.pattern_length, i,
                          c.expected_location + bin_mid,
                          c.expected_location, c.options)
             new_min == IF FLeq(score, current_threshold)
                        THEN bin_mid ELSE bin_min
             new_max == IF FLeq(score, current_threshold)
                        THEN bin_max ELSE bin_mid
         IN  binary_search(c, i, current_threshold, new_min,
                           ((new_max - new_min) \div 2) + new_min, new_max)

RECURSIVE sweep(_, _, _, _, _)
\* the loop over j from finish down to start at i errors; bit_arr[j] of the
\* source is s.bit_arr[j + 1]
sweep(c, i, j, start, s) ==
    IF j < start THEN s
    ELSE
    LET current_location == j - 1
        has_entry == /\ current_location < Len(c.text)
                     /\ c.text[j] \in DOMAIN c.pattern_alphabet
        char_match == IF has_entry THEN c.pattern_alphabet[c.text[j]] ELSE {}
        last == c.last_bit_arr
    IN  IF \/ c.compute_matches /\ current_location >= Len(s.match_mask)
           \/ i > 0 /\ j + 1 >= Len(last)
        THEN [s EXCEPT !.panic = TRUE]
        ELSE
        LET mask1 == IF c.compute_matches
                     THEN [s.match_mask EXCEPT ![j] = has_entry]
                     ELSE s.match_mask
            exact == (Shl1(s.bit_arr[j + 2]) \cup {0}) \cap char_match
            fuzzy == IF i > 0
                     THEN Shl1(last[j + 2] \cup last[j + 1]) \cup {0}
                              \cup last[j + 2]
                     ELSE {}
            s1 == [s EXCEPT !.match_mask = mask1,
                            !.bit_arr[j + 1] = exact \cup fuzzy]
        IN  IF (c.pattern_length - 1) \notin (exact \cup fuzzy)
            THEN sweep(c, i, j - 1, start, s1)
            ELSE
            LET final_score == compute_score(c.pattern_length, i,
                                   current_location, c.expected_location,
                                   c.options)
                s2 == [s1 EXCEPT !.final_score = final_score]
            IN  IF ~FLeq(final_score, s.current_threshold)
                THEN sweep(c, i, j - 1, start, s2)
                ELSE
                LET s3 == [s2 EXCEPT !.current_threshold = final_score,
                                     !.best_location = current_location]
                IN  IF current_location <= c.expected_location
                    THEN s3
                    ELSE sweep(c, i, j - 1, start, s3)

RECURSIVE error_loop(_, _, _)

\* the end of one round of the loop over i: s is the state before the round,
\* sw the state the loop over j left; the round's bit_arr becomes last_bit_arr
\* unless no more errors fit under the threshold
error_loop_end(c, i, bin_mid, sw) ==
    LET score == compute_score(c.pattern_length, i + 1, c.expected_location,
                               c.expected_location, c.options)
        after == [current_threshold |-> sw.current_threshold,
                  best_location |-> sw.best_location,
                  final_score |-> sw.final_score,
                  bin_max |-> bin_mid,
                  last_bit_arr |-> sw.bit_arr,
                  match_mask |-> sw.match_mask,
                  panic |-> sw.panic]
    IN  IF sw.panic \/ FLt(sw.current_threshold, score)
        THEN after
        ELSE error_loop(c, i + 1, after)

\* one round of the loop over i once the binary search has set bin_mid
error_loop_window(c, i, s, bin_mid) ==
    LET start == IF c.expected_location >= bin_mid
                 THEN c.expected_location - bin_mid + 1 ELSE 1
        finish == IF c.options.find_all_matches THEN Len(c.text)
                  ELSE Min(c.expected_location + bin_mid, Len(c.text))
                           + c.pattern_length
    IN  error_loop_end(c, i, bin_mid,
            sweep([c EXCEPT !.last_bit_arr = s.last_bit_arr], i, finish, start,
                  [bit_arr |-> [k \in 1..(finish + 2) |->
                                   IF k = finish + 2 THEN BitsBelow(i) ELSE {}],
                   match_mask |-> s.match_mask,
                   final_score |-> s.final_score,
                   current_threshold |-> s.current_threshold,
                   best_location |-> s.best_location, panic |-> FALSE]))

\* the loop of search over the number of errors i
error_loop(c, i, s) ==
    IF i >= c.pattern_length THEN s
    ELSE error_loop_window(c, i, s,
             binary_search(c, i, s.current_threshold, 0, s.bin_max, s.bin_max))

\* the result of search from the state s the loops left
search_result(o, compute_matches, s, indicies) ==
    IF s.panic THEN Panic
    ELSE IF ~compute_matches
    THEN Ok(s.best_location # USIZE_MAX, FMax(Frac(1, 1000), s.final_score),
            None, s.match_mask)
    ELSE IF indicies = <<>>
    THEN Ok(FALSE, FMax(Frac(1, 1000), s.final_score), None, s.match_mask)
    ELSE Ok(s.best_location # USIZE_MAX, FMax(Frac(1, 1000), s.final_score),
            IF o.include_matches THEN Some(indicies) ELSE None, s.match_mask)

\* the end of search: the indices of the final match mask and the result
search_end(c, s) ==
    search_result(c.options, c.compute_matches, s,
        convert_mask_to_indices(s.match_mask,
                                c.options.min_match_char_length))

\* the loops of search, from the state the exact-occurrence loop left
search_loops(c, pre) ==
    search_end(c,
        error_loop(c, 0,
            [current_threshold |-> pre.current_threshold,
             best_location |-> USIZE_MAX,
             final_score |-> FOne,
             bin_max |-> c.pattern_length + Len(c.text),
             last_bit_arr |-> <<>>,
             match_mask |-> pre.match_mask,
             panic |-> FALSE]))

\* search: the bitap kernel on one pattern of at most MAX_BITS characters.
\* The result carries the final match mask next to the SearchResult. With
\* the empty pattern index_of finds an occurrence at best_location and
\* best_location = index + 0 does not advance: the first loop does not end.
search(text, pattern, pattern_alphabet, o) ==
    IF Len(pattern) > MAX_BITS THEN Err(PatternLengthTooLarge(MAX_BITS))
    ELSE IF pattern = <<>> THEN Hang
    ELSE search_loops(
             [text |-> text, pattern_length |-> Len(pattern),
              pattern_alphabet |-> pattern_alphabet, options |-> o,
              expected_location |-> Min(o.location, Len(text)),
              compute_matches |->
                  o.min_match_char_length > 1 \/ o.include_matches,
              last_bit_arr |-> <<>>],
             pre_pass(text, pattern, o, Min(o.location, Len(text)),
                      o.threshold, Min(o.location, Len(text)),
                      IF o.min_match_char_length > 1 \/ o.include_matches
                      THEN [k \in 1..Len(text) |-> FALSE] ELSE <<>>))

---------------------------------------------------------------------------
(* BitmapSearch: normalisation and chunking around the kernel *)

\* the normalisation of BitmapSearch::new and search_in (ignore_diacritics
\* is left at its default, false)
Normalize(s, o) == IF o.is_case_sensitive THEN s ELSE to_lowercase(s)

PatternChunk(pattern, start_index) ==
    [pattern |-> pattern,
     alphabet |-> create_pattern_alphabet(pattern),
     start_index |-> start_index]

\* add_chunk_from_pattern with the last window starting where the full
\* windows end
add_chunk_from_pattern_tail_only(pattern) ==
    LET len == Len(pattern)
        remainder == len % MAX_BITS
        end == len - remainder
        full == [q \in 1..(end \div MAX_BITS) |->
                    PatternChunk(SubSeq(pattern, (q - 1) * MAX_BITS + 1,
                                        q * MAX_BITS),
                                 (q - 1) * MAX_BITS)]
    IN  IF len > MAX_BITS
        THEN IF remainder > 0
             THEN Append(full, PatternChunk(SubSeq(pattern, end + 1, len),
                                            end))
             ELSE full
        ELSE <<PatternChunk(pattern, 0)>>

\* add_chunk_from_pattern: windows of MAX_BITS characters, the last one
\* pulled back to end with the pattern
add_chunk_from_pattern(pattern) ==
    LET len == Len(pattern)
        remainder == len % MAX_BITS
        end == len - remainder
        full == [q \in 1..(end \div MAX_BITS) |->
                    PatternChunk(SubSeq(pattern, (q - 1) * MAX_BITS + 1,
                                        q * MAX_BITS),
                                 (q - 1) * MAX_BITS)]
    IN  IF len > MAX_BITS
        THEN IF remainder > 0
             THEN Append(full, PatternChunk(
                      SubSeq(pattern, len - MAX_BITS + 1, len),
                      len - MAX_BITS))
             ELSE full
        ELSE <<PatternChunk(pattern, 0)>>

\* BitmapSearch::new
BitmapSearch(pattern, o) ==
    LET new_pattern == Normalize(pattern, o)
    IN  [pattern |-> new_pattern, options |-> o,
         chunks |-> IF new_pattern = <<>> THEN <<>>
                    ELSE add_chunk_from_pattern(new_pattern)]

RECURSIVE search_chunks(_, _, _, _)

\* the body of the for_each closure of search_in once the kernel has
\* returned result for the k-th chunk
search_chunk_end(bs, text, k, acc, result) ==
    IF result.kind = "ok"
    THEN search_chunks(bs, text, k + 1,
             [acc EXCEPT
                !.has_matches = result.is_match,
                !.total_score = FAdd(acc.total_score, result.score),
                !.all_indices =
                    IF result.is_match /\ result.indices.some
                    THEN acc.all_indices \o result.indices.v
                    ELSE acc.all_indices])
    ELSE IF result.kind = "err"
    THEN search_chunks(bs, text, k + 1, acc)
    ELSE [acc EXCEPT !.kind = result.kind]

\* the for_each of search_in over the chunks from the k-th on
search_chunks(bs, text, k, acc) ==
    IF k > Len(bs.chunks) \/ acc.kind # "ok" THEN acc
    ELSE search_chunk_end(bs, text, k, acc,
             search(text, bs.chunks[k].pattern, bs.chunks[k].alphabet,
                    [bs.options EXCEPT
                        !.location = bs.options.location
                                         + bs.chunks[k].start_index]))

\* the SearchResult of search_in from what the chunks accumulated
search_in_end(bs, acc) ==
    IF acc.kind = "panic" THEN {Panic}
    ELSE IF acc.kind = "hang" THEN {Hang}
    ELSE {Ok(acc.has_matches,
             IF acc.has_matches
             THEN FDivInt(acc.total_score, Len(bs.chunks)) ELSE FOne,
             IF bs.options.include_matches /\ acc.has_matches
             THEN Some(acc.all_indices) ELSE None,
             <<>>)}

\* search_in on the normalized text
search_in_normalized(bs, text) ==
    IF text = bs.pattern
    THEN IF ~bs.options.include_matches
         THEN {Ok(TRUE, FZero, None, <<>>)}
         ELSE IF Len(text) = 0
         THEN {Panic, Ok(TRUE, FZero, Some(<< <<0, USIZE_MAX>> >>), <<>>)}
         ELSE {Ok(TRUE, FZero, Some(<< <<0, Len(text) - 1>> >>), <<>>)}
    ELSE search_in_end(bs,
             search_chunks(bs, text, 1,
                 [kind |-> "ok", has_matches |-> FALSE,
                  total_score |-> FZero, all_indices |-> <<>>]))

\* BitmapSearch::search_in: the set of results the call can produce. The
\* subtraction text.len() - 1 on an empty text aborts in a build with
\* overflow checks and wraps to usize::MAX in one without.
search_in(bs, text) == search_in_normalized(bs, Normalize(text, bs.options))

---------------------------------------------------------------------------
(* The searches as a state machine: an input is drawn, then one of the
   searches runs on it *)

MaxTextLen == 3
MaxPatternLen == 2

Chars == {"a", "b"}

Texts == SeqsUpTo(Chars, MaxTextLen) \cup {<<"A">>, <<"a", "B">>}

ShortPatterns == SeqsUpTo(Chars, MaxPatternLen) \cup {<<"A">>, <<"a", "B">>}

\* a pattern of n characters, for the lengths around MAX_BITS
LongPattern(n) == [k \in 1..n |-> IF k % 2 = 1 THEN "a" ELSE "b"]
LongPatterns == {LongPattern(MAX_BITS), LongPattern(MAX_BITS + 1)}

\* FuseOptions, the fields the searches read; DefaultOptions are the
\* documented defaults
DefaultOptions ==
    [is_case_sensitive |-> FALSE, include_matches |-> FALSE,
     find_all_matches |-> FALSE, min_match_char_length |-> 1,
     location |-> 0, threshold |-> Frac(3, 5), distance |-> 100,
     ignore_location |-> FALSE]

Options ==
    [is_case_sensitive : {FALSE}, include_matches : BOOLEAN,
     find_all_matches : BOOLEAN, min_match_char_length : {1, 2},
     location : {0, 1}, threshold : {FZero, Frac(3, 5)},
     distance : {0, 1, 100}, ignore_location : BOOLEAN]
        \cup {[DefaultOptions EXCEPT !.is_case_sensitive = TRUE,
                                     !.include_matches = im] :
                  im \in BOOLEAN}

LongOptions ==
    {[DefaultOptions EXCEPT !.include_matches = im, !.ignore_location = il] :
        im \in BOOLEAN, il \in BOOLEAN}

\* a hit two characters past the expected location, at a distance that lets
\* it pass the threshold
FarHitInputs ==
    [text : {<<"x", "y", "a", "b">>}, pattern : {<<"a", "b">>},
     options : {[DefaultOptions EXCEPT !.distance = 4,
                                       !.include_matches = im] :
                    im \in BOOLEAN}]

\* a pattern of two chunks and a text that only the first chunk is close
\* enough to: thirteen equal characters against thirteen and then twelve of
\* them followed by other characters
TwoChunkPattern ==
    [k \in 1..(MAX_BITS + 1) |-> IF k <= 13 THEN "a" ELSE "b"]

TwoChunkInputs ==
    [text : {[k \in 1..13 |-> "a"], [k \in 1..12 |-> "a"]},
     pattern : {TwoChunkPattern},
     options : {[DefaultOptions EXCEPT !.ignore_location = TRUE]}]

SearchInputs ==
    [text : Texts, pattern : ShortPatterns, options : Options]
        \cup [text : Texts, pattern : LongPatterns, options : LongOptions]
        \cup FarHitInputs
        \cup TwoChunkInputs

InitBitap ==
    /\ keys = <<>>
    /\ records = <<>>
    /\ cache = <<>>
    /\ registry = <<>>
    /\ threads = <<>>
    /\ op = "input"
    /\ arg \in SearchInputs
    /\ res = <<>>

\* search(text, pattern, create_pattern_alphabet(pattern), options)
KernelSearch ==
    /\ op = "input"
    /\ arg.pattern # <<>>
    /\ op' = "search"
    /\ res' = search(arg.text, arg.pattern,
                     create_pattern_alphabet(arg.pattern), arg.options)
    /\ UNCHANGED <<registry, threads, keys, records, cache, arg>>

\* BitmapSearch::new(pattern, options).search_in(text)
BitmapSearchIn ==
    /\ op = "input"
    /\ op' = "search_in"
    /\ res' \in search_in(BitmapSearch(arg.pattern, arg.options), arg.text)
    /\ UNCHANGED <<registry, threads, keys, records, cache, arg>>

NextBitap == KernelSearch \/ BitmapSearchIn

SpecBitap == InitBitap /\ [][NextBitap]_vars

---------------------------------------------------------------------------
(* Extended search: the query parser *)

QUOTE == "\""
OR_TOKEN == "|"

\* str::split(OR_TOKEN): the pieces between the separators, empty ones kept
RECURSIVE split_or(_, _, _, _)
split_or(s, k, cur, out) ==
    IF k > Len(s) THEN Append(out, cur)
    ELSE IF s[k] = OR_TOKEN THEN split_or(s, k + 1, <<>>, Append(out, cur))
    ELSE split_or(s, k + 1, Append(cur, s[k]), out)

\* str::trim
RECURSIVE trim_start(_)
trim_start(s) == IF s # <<>> /\ s[1] = " " THEN trim_start(Tail(s)) ELSE s
RECURSIVE trim_end(_)
trim_end(s) ==
    IF s # <<>> /\ s[Len(s)] = " " THEN trim_end(SubSeq(s, 1, Len(s) - 1))
    ELSE s
trim(s) == trim_end(trim_start(s))

\* SPACE_RE matches a run of spaces that an even number of quotes follows:
\* whether the space at position k belongs to such a run
IsSeparator(s, k) ==
    /\ s[k] = " "
    /\ Cardinality({q \in k..Len(s) : s[q] = QUOTE}) % 2 = 0

\* split(SPACE_RE) followed by the filter on empty and blank pieces
RECURSIVE split_space(_, _, _, _)
split_space(s, k, cur, out) ==
    IF k > Len(s)
    THEN IF trim(cur) = <<>> THEN out ELSE Append(out, cur)
    ELSE IF IsSeparator(s, k)
    THEN split_space(s, k + 1, <<>>,
                     IF trim(cur) = <<>> THEN out ELSE Append(out, cur))
    ELSE split_space(s, k + 1, Append(cur, s[k]), out)

\* get_match on a regex of the form ^prefix(.*)suffix$: the captured group
get_match(token, prefix, suffix) ==
    IF /\ Len(token) >= Len(prefix) + Len(suffix)
       /\ starts_with(token, prefix)
       /\ ends_with(token, suffix)
    THEN Some(SubSeq(token, Len(prefix) + 1, Len(token) - Len(suffix)))
    ELSE None

Searcher(type, multi_prefix, multi_suffix, single_prefix, single_suffix) ==
    [type |-> type,
     multi_prefix |-> multi_prefix, multi_suffix |-> multi_suffix,
     single_prefix |-> single_prefix, single_suffix |-> single_suffix]

ExactMatch == Searcher("exact", <<"=", QUOTE>>, <<QUOTE>>, <<"=">>, <<>>)
IncludeMatch == Searcher("include", <<"'", QUOTE>>, <<QUOTE>>, <<"'">>, <<>>)
PrefixExactMatch ==
    Searcher("prefix-exact", <<"^", QUOTE>>, <<QUOTE>>, <<"^">>, <<>>)
InversePrefixExactMatch ==
    Searcher("inverse-prefix-exact", <<"!", "^", QUOTE>>, <<QUOTE>>,
             <<"!", "^">>, <<>>)
InverseSuffixExactMatch ==
    Searcher("inverse-suffix-exact", <<"!", QUOTE>>, <<QUOTE, "$">>,
             <<"!">>, <<"$">>)
SuffixExactMatch ==
    Searcher("suffix-exact", <<QUOTE>>, <<QUOTE, "$">>, <<>>, <<"$">>)
InverseExactMatch ==
    Searcher("inverse-exact", <<"!", QUOTE>>, <<QUOTE>>, <<"!">>, <<>>)
FuzzyMatch == Searcher("fuzzy", <<QUOTE>>, <<QUOTE>>, <<>>, <<>>)

\* the order of the spec's operator table: suffix-exact before
\* inverse-suffix-exact
SearchersTableOrder ==
    <<ExactMatch, IncludeMatch, PrefixExactMatch, InversePrefixExactMatch,
      SuffixExactMatch, InverseSuffixExactMatch, InverseExactMatch,
      FuzzyMatch>>

\* the order in which parse_query tries the matcher types
Searchers ==
    <<ExactMatch, IncludeMatch, PrefixExactMatch, InversePrefixExactMatch,
      InverseSuffixExactMatch, SuffixExactMatch, InverseExactMatch,
      FuzzyMatch>>

\* a matcher as parse_query builds it
Matcher(type, pattern) == [type |-> type, pattern |-> pattern]

\* the first matcher type from the k-th on whose multi regex matches
RECURSIVE multi_match(_, _)
multi_match(query_item, k) ==
    IF k > Len(Searchers) THEN None
    ELSE IF get_match(query_item, Searchers[k].multi_prefix,
                      Searchers[k].multi_suffix).some
    THEN Some(Matcher(Searchers[k].type,
                 get_match(query_item, Searchers[k].multi_prefix,
                           Searchers[k].multi_suffix).v))
    ELSE multi_match(query_item, k + 1)

\* the first matcher type from the k-th on whose single regex matches
RECURSIVE single_match(_, _)
single_match(query_item, k) ==
    IF k > Len(Searchers) THEN None
    ELSE IF get_match(query_item, Searchers[k].single_prefix,
                      Searchers[k].single_suffix).some
    THEN Some(Matcher(Searchers[k].type,
                 get_match(query_item, Searchers[k].single_prefix,
                           Searchers[k].single_suffix).v))
    ELSE single_match(query_item, k + 1)

\* the body of the loop over the query items: the matcher of one item
parse_item(query_item) ==
    IF multi_match(query_item, 1).some THEN multi_match(query_item, 1)
    ELSE single_match(query_item, 1)

\* the matchers of one OR piece
parse_group(item) ==
    LET query == split_space(trim(item), 1, <<>>, <<>>)
    IN  [k \in 1..Len(query) |-> parse_item(query[k]).v]

\* parse_query: one list of matchers per OR piece
parse_query(pattern) ==
    LET items == split_or(pattern, 1, <<>>, <<>>)
    IN  [g \in 1..Len(items) |-> parse_group(items[g])]

---------------------------------------------------------------------------
(* Extended search: the matchers *)

\* whether the build checks arithmetic overflow (it aborts then) or wraps
Builds == {"debug", "release"}

\* usize::saturating_sub
saturating_sub(x, y) == IF x >= y THEN x - y ELSE 0

\* the result of a matcher without scoring: 0.0 on a match, 1.0 otherwise
MatchResult(is_match, indices) ==
    Ok(is_match, IF is_match THEN FZero ELSE FOne, indices, <<>>)

\* ExactMatch::search
exact_search(pattern, text) ==
    MatchResult(text = pattern,
        IF text = pattern
        THEN Some(<< <<0, saturating_sub(Len(pattern), 1)>> >>) ELSE None)

\* str::find on text[location..]: the offset in the slice of the first
\* occurrence
find(text, pattern, location) ==
    LET hits == {idx \in location..Len(text) : OccursAt(text, pattern, idx)}
    IN  IF hits = {} THEN None
        ELSE Some((CHOOSE idx \in hits : \A other \in hits : idx <= other)
                      - location)

\* the while loop of IncludeMatch::search for a non-empty pattern
RECURSIVE include_loop(_, _, _, _)
include_loop(pattern, text, location, indices) ==
    IF ~find(text, pattern, location).some THEN indices
    ELSE include_loop(pattern, text,
             location + find(text, pattern, location).v + Len(pattern),
             Append(indices,
                    <<location + find(text, pattern, location).v,
                      location + find(text, pattern, location).v
                          + Len(pattern) - 1>>))

\* IncludeMatch::search. With the empty pattern the first round computes
\* 0 + 0 - 1 in usize: an abort where overflow is checked; where it wraps,
\* location never advances and the loop does not end.
include_search(pattern, text, build) ==
    IF pattern = <<>>
    THEN IF build = "debug" THEN Panic ELSE Hang
    ELSE MatchResult(include_loop(pattern, text, 0, <<>>) # <<>>,
             IF include_loop(pattern, text, 0, <<>>) # <<>>
             THEN Some(include_loop(pattern, text, 0, <<>>)) ELSE None)

\* PrefixExactMatch::search
prefix_exact_search(pattern, text) ==
    MatchResult(starts_with(text, pattern),
        IF starts_with(text, pattern)
        THEN Some(<< <<0, saturating_sub(Len(pattern), 1)>> >>) ELSE None)

\* InversePrefixExactMatch::search
inverse_prefix_exact_search(pattern, text) ==
    MatchResult(~starts_with(text, pattern),
        Some(<< <<0, saturating_sub(Len(text), 1)>> >>))

\* SuffixExactMatch::search
suffix_exact_search(pattern, text) ==
    MatchResult(ends_with(text, pattern),
        IF ~ends_with(text, pattern) THEN None
        ELSE IF pattern = <<>>
        THEN IF text = <<>> THEN Some(<< <<0, 0>> >>)
             ELSE Some(<< <<Len(text) - 1, Len(text) - 1>> >>)
        ELSE Some(<< <<saturating_sub(Len(text), Len(pattern)),
                       saturating_sub(Len(text), 1)>> >>))

\* InverseSuffixExactMatch::search
inverse_suffix_exact_search(pattern, text) ==
    MatchResult(~ends_with(text, pattern),
        IF ~ends_with(text, pattern)
        THEN Some(<< <<0, saturating_sub(Len(text), 1)>> >>) ELSE None)

\* InverseExactMatch::search
inverse_exact_search(pattern, text) ==
    MatchResult(~index_of(text, pattern, 0).some,
        Some(<< <<0, saturating_sub(Len(text), 1)>> >>))

\* From<FuzzyMatchOptions> for FuseOptions: the copied fields over defaults
FuzzyOptions(o) ==
    [o EXCEPT !.is_case_sensitive = DefaultOptions.is_case_sensitive]

\* the SearchResult FuzzyMatch::search makes of the kernel's outcome
fuzzy_result(r) ==
    IF r.kind = "err" THEN Ok(FALSE, FOne, None, <<>>)
    ELSE IF r.kind = "ok" THEN Ok(r.is_match, r.score, r.indices, <<>>)
    ELSE r

\* FuzzyMatch::search
fuzzy_search(pattern, text, o) ==
    fuzzy_result(search(text, pattern, create_pattern_alphabet(pattern),
                        FuzzyOptions(o)))

NonFuzzyTypes ==
    {"exact", "include", "prefix-exact", "inverse-prefix-exact",
     "suffix-exact", "inverse-suffix-exact", "inverse-exact"}
MatcherTypes == NonFuzzyTypes \cup {"fuzzy"}

\* searcher.search(text) by the matcher's type
matcher_search(m, text, o, build) ==
    CASE m.type = "exact" -> exact_search(m.pattern, text)
      [] m.type = "include" -> include_search(m.pattern, text, build)
      [] m.type = "prefix-exact" -> prefix_exact_search(m.pattern, text)
      [] m.type = "inverse-prefix-exact" ->
             inverse_prefix_exact_search(m.pattern, text)
      [] m.type = "suffix-exact" -> suffix_exact_search(m.pattern, text)
      [] m.type = "inverse-suffix-exact" ->
             inverse_suffix_exact_search(m.pattern, text)
      [] m.type = "inverse-exact" -> inverse_exact_search(m.pattern, text)
      [] m.type = "fuzzy" -> fuzzy_search(m.pattern, text, o)

---------------------------------------------------------------------------
(* ExtendedSearch *)

\* match types that can return several index pairs
MULTI_MATCH_SET == {"fuzzy", "include"}

\* ExtendedSearch::new
ExtendedSearch(pattern, o) ==
    [pattern |-> Normalize(pattern, o), options |-> o,
     query |-> parse_query(Normalize(pattern, o))]

RECURSIVE and_loop(_, _, _, _, _, _)

\* the body of the loop over the searchers of a group, given the result of
\* the k-th searcher
and_step(es, text, build, searchers, k, st, result) ==
    IF result.kind # "ok" THEN [st EXCEPT !.kind = result.kind]
    ELSE IF result.is_match
    THEN and_loop(es, text, build, searchers, k + 1,
             [st EXCEPT
                !.num_matches = st.num_matches + 1,
                !.total_score = FAdd(st.total_score, result.score),
                !.all_indices =
                    IF es.options.include_matches /\ result.indices.some
                    THEN IF searchers[k].type \in MULTI_MATCH_SET
                         THEN st.all_indices \o result.indices.v
                         ELSE IF result.indices.v # <<>>
                         THEN Append(st.all_indices, result.indices.v[1])
                         ELSE st.all_indices
                    ELSE st.all_indices])
    ELSE [st EXCEPT !.total_score = FZero, !.num_matches = 0,
                    !.all_indices = <<>>]

\* the loop over the searchers of one group from the k-th on
and_loop(es, text, build, searchers, k, st) ==
    IF k > Len(searchers) THEN st
    ELSE and_step(es, text, build, searchers, k, st,
             matcher_search(searchers[k], text, es.options, build))

RECURSIVE or_loop(_, _, _, _, _)

\* the end of the body of the loop over the groups: return on a match
or_step(es, text, build, g, st) ==
    IF st.kind = "panic" THEN Panic
    ELSE IF st.kind = "hang" THEN Hang
    ELSE IF st.num_matches > 0
    THEN Ok(TRUE, FDivInt(st.total_score, st.num_matches),
            IF es.options.include_matches THEN Some(st.all_indices)
            ELSE None,
            <<>>)
    ELSE or_loop(es, text, build, g + 1, st.total_score)

\* the loop over the groups from the g-th on
or_loop(es, text, build, g, total_score) ==
    IF g > Len(es.query) THEN Ok(FALSE, FOne, None, <<>>)
    ELSE or_step(es, text, build, g,
             and_loop(es, text, build, es.query[g], 1,
                 [kind |-> "ok", num_matches |-> 0,
                  total_score |-> total_score, all_indices |-> <<>>]))

\* ExtendedSearch::search_in
extended_search_in(es, text, build) ==
    or_loop(es, Normalize(text, es.options), build, 1, FZero)

---------------------------------------------------------------------------
(* The extended search as a state machine: an input is drawn, then a
   matcher, the parser or the search runs on it *)

MaxQueryLen == 3

QueryChars == {"a", "b", "!", "$", "^", QUOTE, " ", OR_TOKEN}

\* longer queries: quoted tokens, the other operators, several groups
LongQueries ==
    {<<"^", "a", " ", "b", "$", "|", "!", "a">>,
     <<"!", QUOTE, "a", QUOTE, "$">>,
     <<"=", "a", "b">>, <<"'", "a">>, <<"'">>, <<"!", "A", "$">>,
     <<"a", "b", " ", "!", "b", "$">>,
     <<QUOTE, "a", " ", "b", QUOTE, " ", "a">>}

Queries == SeqsUpTo(QueryChars, MaxQueryLen) \cup LongQueries

ExtTexts == SeqsUpTo(Chars, 2) \cup {<<"A">>, <<"a", "b", "a">>}

ExtOptions ==
    {[DefaultOptions EXCEPT !.include_matches = im,
                            !.is_case_sensitive = cs] :
        im \in BOOLEAN, cs \in BOOLEAN}

ExtInputs ==
    [text : ExtTexts, pattern : Queries, options : ExtOptions,
     type : {"query"}]
        \cup [text : ExtTexts, pattern : SeqsUpTo(Chars, 2),
              options : ExtOptions, type : MatcherTypes]
        \cup [text : {<<"a">>, <<"a", "b">>},
              pattern : {LongPattern(MAX_BITS + 1)},
              options : ExtOptions, type : {"query", "fuzzy"}]

InitExt ==
    /\ keys = <<>>
    /\ records = <<>>
    /\ cache = <<>>
    /\ registry = <<>>
    /\ threads = <<>>
    /\ op = "input"
    /\ arg \in ExtInputs
    /\ res = <<>>

\* searcher.search(text) of a matcher of the drawn type and pattern
MatcherSearch(build) ==
    /\ op = "input"
    /\ arg.type # "query"
    /\ op' = "matcher_search"
    /\ res' = matcher_search(Matcher(arg.type, arg.pattern), arg.text,
                             arg.options, build)
    /\ UNCHANGED <<registry, threads, keys, records, cache, arg>>

\* parse_query(pattern)
ParseQuery ==
    /\ op = "input"
    /\ arg.type = "query"
    /\ op' = "parse_query"
    /\ res' = parse_query(arg.pattern)
    /\ UNCHANGED <<registry, threads, keys, records, cache, arg>>

\* ExtendedSearch::new(pattern, options).search_in(text)
ExtendedSearchIn(build) ==
    /\ op = "input"
    /\ arg.type = "query"
    /\ op' = "extended_search_in"
    /\ res' = extended_search_in(ExtendedSearch(arg.pattern, arg.options),
                                 arg.text, build)
    /\ UNCHANGED <<registry, threads, keys, records, cache, arg>>

NextExt ==
    \/ \E build \in Builds : MatcherSearch(build)
    \/ ParseQuery
    \/ \E build \in Builds : ExtendedSearchIn(build)

SpecExt == InitExt /\ [][NextExt]_vars

---------------------------------------------------------------------------
(* Logical query parser.  Keys and strings are sequences of characters; an
   object lists its members in the iteration order of serde_json::Map. *)

AND == <<"$", "a", "n", "d">>
OR == <<"$", "o", "r">>
PATH == <<"$", "p", "a", "t", "h">>
PATTERN == <<"$", "v", "a", "l">>

InvalidLogicalQueryForKey(k) == <<"InvalidLogicalQueryForKey", k>>

\* ParsedExpression: a leaf or a logical node, with the same fields
LeafNode(key_id, pattern) ==
    [type |-> "Leaf", key_id |-> key_id, pattern |-> pattern,
     operator |-> <<>>, children |-> <<>>]
LogicalNode(operator, children) ==
    [type |-> "Logical", key_id |-> <<>>, pattern |-> <<>>,
     operator |-> operator, children |-> children]

\* Result<ParsedExpression, FuseError>
ParseOk(node) == [kind |-> "ok", node |-> node, err |-> <<>>]
ParseErr(e) == [kind |-> "err", node |-> LeafNode(<<>>, <<>>), err |-> e]

contains_key(o, key) == \E k \in 1..Len(o) : o[k][1] = key

is_expression(o) == contains_key(o, AND) \/ contains_key(o, OR)

is_path(o) == contains_key(o, PATH)

is_leaf(v) == v.t = "obj" /\ v.o # <<>> /\ ~is_expression(v.o)

needs_explicit_and_above_two(o) ==
    Len(o) > 2 /\ ~is_expression(o) /\ ~is_path(o)
needs_explicit_and(o) ==
    Len(o) > 1 /\ ~is_expression(o) /\ ~is_path(o)

\* the orders in which a HashMap of n entries can be iterated
IterationOrders(n) ==
    {p \in [1..n -> 1..n] : \A i, j \in 1..n : i # j => p[i] # p[j]}

\* convert_to_explicit: one single-key object per entry, in the iteration
\* order of the HashMap, which the language leaves open
convert_to_explicit(o) ==
    {JObj(<< <<AND, JArr([k \in 1..Len(o) |-> JObj(<<o[p[k]]>>)])>> >>) :
        p \in IterationOrders(Len(o))}

RECURSIVE join(_, _)
\* [String]::join
join(parts, sep) ==
    IF parts = <<>> THEN <<>>
    ELSE IF Len(parts) = 1 THEN parts[1]
    ELSE parts[1] \o sep \o join(Tail(parts), sep)

create_key_id(path) == join(path, <<".">>)

\* LeafNodeBuilder::build_from_path; the elements of $path are looked at
\* only after $val
build_from_path(o) ==
    IF ~JGetKey(JObj(o), PATH).some \/ JGetKey(JObj(o), PATH).v.t # "arr"
    THEN ParseErr(InvalidLogicalQueryForKey(PATH))
    ELSE IF ~JGetKey(JObj(o), PATTERN).some
            \/ JGetKey(JObj(o), PATTERN).v.t # "str"
    THEN ParseErr(InvalidLogicalQueryForKey(PATTERN))
    ELSE IF \E k \in 1..Len(JGetKey(JObj(o), PATH).v.a) :
                JGetKey(JObj(o), PATH).v.a[k].t # "str"
    THEN ParseErr(InvalidLogicalQueryForKey(PATH))
    ELSE ParseOk(LeafNode(
            create_key_id([k \in 1..Len(JGetKey(JObj(o), PATH).v.a) |->
                              JGetKey(JObj(o), PATH).v.a[k].s]),
            JGetKey(JObj(o), PATTERN).v.s))

\* LeafNodeBuilder::build_from_key_value
build_from_key_value(key, value) ==
    IF value.t # "str"
    THEN ParseErr(InvalidLogicalQueryForKey(key))
    ELSE ParseOk(LeafNode(create_key_id(<<key>>), value.s))

\* QueryParser::parse_leaf_node
parse_leaf_node(o) ==
    IF is_path(o) THEN build_from_path(o)
    ELSE IF o = <<>>
    THEN ParseErr(InvalidLogicalQueryForKey(<<"k", "e", "y">>))
    ELSE build_from_key_value(o[1][1], o[1][2])

RECURSIVE parse_value(_)
RECURSIVE build_loop(_, _, _, _)

\* one turn of the loop of LogicalNodeBuilder::build, r being what the child
\* parsed to
build_item_skip_failed(operator, arr, k, children, r) ==
    IF r.kind = "err"
    THEN build_loop(operator, arr, k + 1, children)
    ELSE build_loop(operator, arr, k + 1, Append(children, r.node))
build_item(operator, arr, k, children, r) ==
    IF r.kind = "err"
    THEN {r}
    ELSE build_loop(operator, arr, k + 1, Append(children, r.node))

\* the loop of LogicalNodeBuilder::build over the array, from its k-th item
build_loop(operator, arr, k, children) ==
    IF k > Len(arr)
    THEN {ParseOk(LogicalNode(operator, children))}
    ELSE UNION {build_item(operator, arr, k, children, r) :
                    r \in parse_value(arr[k])}

\* LogicalNodeBuilder::build
logical_node_build(operator, o) ==
    IF JGetKey(JObj(o), operator).some /\ JGetKey(JObj(o), operator).v.t = "arr"
    THEN build_loop(operator, JGetKey(JObj(o), operator).v.a, 1, <<>>)
    ELSE {ParseOk(LogicalNode(operator, <<>>))}

\* QueryParser::parse_logical_node: the operator is the first key of the map
parse_logical_node(o) ==
    IF o = <<>>
    THEN {ParseErr(InvalidLogicalQueryForKey(
              <<"o", "p", "e", "r", "a", "t", "o", "r">>))}
    ELSE logical_node_build(o[1][1], o)

\* QueryParser::parse_value: the set of results the call can have
parse_value(v) ==
    IF v.t # "obj"
    THEN {ParseErr(InvalidLogicalQueryForKey(<<"q", "u", "e", "r", "y">>))}
    ELSE IF needs_explicit_and(v.o)
    THEN UNION {parse_value(e) : e \in convert_to_explicit(v.o)}
    ELSE IF is_leaf(v) THEN {parse_leaf_node(v.o)}
    ELSE parse_logical_node(v.o)

\* Expression, with the same fields for its four variants
KeyValue(map) == [e |-> "KeyValue", map |-> map, path |-> <<>>, val |-> <<>>, list |-> <<>>]
PathValue(path, val) == [e |-> "PathValue", map |-> <<>>, path |-> path, val |-> val, list |-> <<>>]
And(list) == [e |-> "And", map |-> <<>>, path |-> <<>>, val |-> <<>>, list |-> list]
Or(list) == [e |-> "Or", map |-> <<>>, path |-> <<>>, val |-> <<>>, list |-> list]

\* the object of a map from keys to strings
StringMap(map) == [k \in 1..Len(map) |-> <<map[k][1], JStr(map[k][2])>>]
PathArray(path) == JArr([k \in 1..Len(path) |-> JStr(path[k])])

RECURSIVE to_value(_)
\* serde_json::to_value of an Expression (untagged)
to_value(x) ==
    CASE x.e = "KeyValue" -> JObj(StringMap(x.map))
      [] x.e = "PathValue" ->
            JObj(<< <<PATH, PathArray(x.path)>>, <<PATTERN, JStr(x.val)>> >>)
      [] x.e = "And" ->
            JObj(<< <<AND, JArr([k \in 1..Len(x.list) |-> to_value(x.list[k])])>> >>)
      [] x.e = "Or" ->
            JObj(<< <<OR, JArr([k \in 1..Len(x.list) |-> to_value(x.list[k])])>> >>)

\* QueryTransformer::expression_to_value: the values it can produce
expression_to_value(x) ==
    IF x.e = "KeyValue" THEN convert_to_explicit(StringMap(x.map))
    ELSE {to_value(x)}

\* parse: the set of results the call can have
parse(query) == UNION {parse_value(v) : v \in expression_to_value(query)}

---------------------------------------------------------------------------
(* The state machine of the logical query parser: the query is drawn first,
   then parsed once. *)

MaxChildren == 2

QueryKeys == <<<<"a">>, <<"b">>, <<"c">>>>
QueryValues == {JStr(<<"x">>), JStr(<<"y", "z">>), JNum(<<"1">>)}

\* the key/value objects over the keys at the positions ks, keys ascending
KeyValueObjects ==
    UNION {{JObj([k \in 1..Len(ks) |-> <<QueryKeys[ks[k]], f[k]>>]) :
                f \in [1..Len(ks) -> QueryValues]} :
           ks \in {<<1>>, <<2>>, <<3>>, <<1, 2>>, <<1, 3>>, <<2, 3>>, <<1, 2, 3>>}}

PathValues ==
    {JStr(<<"a">>), JArr(<<>>), JArr(<<JStr(<<"a">>)>>),
     JArr(<<JStr(<<"a">>), JStr(<<"b">>)>>),
     JArr(<<JStr(<<"a">>), JNum(<<"1">>)>>)}

PathObjects ==
    {JObj(<< <<PATH, p>> >>) : p \in PathValues}
    \cup {JObj(<< <<PATH, p>>, <<PATTERN, v>> >>) :
            p \in PathValues, v \in {JStr(<<"x">>), JNum(<<"1">>)}}

\* the leaves that appear as children
ChildLeaves ==
    {JObj(<< <<<<"a">>, JStr(<<"x">>)>> >>),
     JObj(<< <<<<"a">>, JNum(<<"1">>)>> >>),
     JObj(<< <<<<"a">>, JStr(<<"x">>)>>, <<<<"b">>, JNum(<<"1">>)>> >>),
     JObj(<< <<<<"a">>, JNum(<<"1">>)>>, <<<<"b">>, JNull>> >>),
     JObj(<< <<PATH, JArr(<<JStr(<<"a">>), JStr(<<"b">>)>>)>>, <<PATTERN, JStr(<<"x">>)>> >>),
     JObj(<< <<PATH, JArr(<<JStr(<<"a">>)>>)>>, <<PATTERN, JNum(<<"1">>)>> >>)}

LogicalObjects(children) ==
    {JObj(<< <<operator, JArr(a)>> >>) :
        operator \in {AND, OR}, a \in SeqsUpTo(children, MaxChildren)}

\* nodes that appear below the top
InnerObjects ==
    {JObj(<< <<AND, JArr(<<>>)>> >>),
     JObj(<< <<OR, JArr(<<JObj(<< <<<<"c">>, JStr(<<"x">>)>> >>)>>)>> >>),
     JObj(<< <<AND, JArr(<<JObj(<< <<<<"c">>, JStr(<<"x">>)>> >>),
                           JObj(<< <<<<"c">>, JBool(<<"t">>)>> >>)>>)>> >>),
     JObj(<< <<OR, JArr(<<JObj(<< <<<<"c">>, JNull>> >>),
                          JObj(<< <<<<"b">>, JNull>> >>)>>)>> >>)}

\* values outside the grammar: no object, no key, an operator without an
\* array, an operator next to other keys
OtherValues ==
    {JStr(<<"x">>), JArr(<<>>), JObj(<<>>),
     JObj(<< <<AND, JStr(<<"x">>)>> >>),
     JObj(<< <<AND, JArr(<<JStr(<<"x">>)>>)>> >>),
     JObj(<< <<AND, JArr(<<>>)>>, <<OR, JArr(<<JObj(<< <<<<"a">>, JNull>> >>)>>)>> >>),
     JObj(<< <<<<"#">>, JStr(<<"x">>)>>, <<AND, JArr(<<JObj(<< <<<<"a">>, JNull>> >>)>>)>> >>),
     JObj(<< <<AND, JArr(<<JObj(<< <<<<"a">>, JStr(<<"x">>)>> >>)>>)>>,
             <<OR, JArr(<<JObj(<< <<<<"b">>, JStr(<<"x">>)>> >>)>>)>> >>),
     JObj(<< <<OR, JArr(<<JObj(<< <<<<"b">>, JStr(<<"x">>)>> >>)>>)>>,
             <<<<"a">>, JStr(<<"x">>)>> >>),
     JObj(<< <<AND, JObj(<< <<<<"a">>, JStr(<<"x">>)>> >>)>> >>)}

QueryObjects ==
    KeyValueObjects \cup PathObjects \cup OtherValues
    \cup LogicalObjects(ChildLeaves \cup InnerObjects)

StringMaps ==
    UNION {{[k \in 1..Len(ks) |-> <<QueryKeys[ks[k]], f[k]>>] :
                f \in [1..Len(ks) -> {<<"x">>, <<"y", "z">>}]} :
           ks \in {<<>>, <<1>>, <<2>>, <<1, 2>>, <<2, 3>>, <<1, 2, 3>>}}

LeafExpressions ==
    {KeyValue(m) : m \in StringMaps}
    \cup {PathValue(p, <<"x">>) : p \in SeqsUpTo({<<"a">>, <<"b">>}, 2)}

ChildExpressions ==
    {KeyValue(<< <<<<"a">>, <<"x">>>> >>),
     KeyValue(<< <<<<"a">>, <<"x">>>>, <<<<"b">>, <<"x">>>> >>),
     PathValue(<<<<"a">>, <<"b">>>>, <<"x">>),
     Or(<<KeyValue(<< <<<<"c">>, <<"x">>>> >>)>>)}

Expressions ==
    LeafExpressions
    \cup {And(l) : l \in SeqsUpTo(ChildExpressions, MaxChildren)}
    \cup {Or(l) : l \in SeqsUpTo(ChildExpressions, MaxChildren)}

QueryInputs ==
    {[api |-> "parse_value", q |-> v] : v \in QueryObjects}
    \cup {[api |-> "parse", q |-> x] : x \in Expressions}

InitQuery ==
    /\ keys = <<>>
    /\ records = <<>>
    /\ cache = <<>>
    /\ registry = <<>>
    /\ threads = <<>>
    /\ op = "input"
    /\ arg \in QueryInputs
    /\ res = <<>>

ParseValue ==
    /\ op = "input"
    /\ arg.api = "parse_value"
    /\ op' = "parse_value"
    /\ res' \in parse_value(arg.q)
    /\ UNCHANGED <<registry, threads, keys, records, cache, arg>>

Parse ==
    /\ op = "input"
    /\ arg.api = "parse"
    /\ op' = "parse"
    /\ res' \in parse(arg.q)
    /\ UNCHANGED <<registry, threads, keys, records, cache, arg>>

\* convert_to_explicit(query) on the members of an object
ConvertToExplicit ==
    /\ op = "input"
    /\ arg.api = "parse_value"
    /\ arg.q.t = "obj"
    /\ op' = "convert_to_explicit"
    /\ res' \in convert_to_explicit(arg.q.o)
    /\ UNCHANGED <<registry, threads, keys, records, cache, arg>>

NextQuery ==
    \/ ParseValue
    \/ Parse
    \/ ConvertToExplicit

SpecQuery == InitQuery /\ [][NextQuery]_vars

---------------------------------------------------------------------------
(* The state machine of the path extractor: a document and a path are drawn
   first, then one call is made. *)

MaxItems == 2
MaxPathLen == 3

GetScalars ==
    {JStr(<<"x">>), JStr(<<"y">>), JNum(<<"1">>),
     JBool(<<"t", "r", "u", "e">>), JNull}

\* objects of scalars, keys ascending
ScalarObjects ==
    {JObj(<< <<k, v>> >>) : k \in {"0", "a"}, v \in GetScalars}
    \cup {JObj(<< <<"0", v>>, <<"a", w>> >>) :
            v \in {JStr(<<"x">>), JNull}, w \in {JStr(<<"y">>), JNum(<<"1">>)}}

ScalarArrays ==
    {JArr(a) : a \in SeqsUpTo({JStr(<<"x">>), JStr(<<"y">>), JNull}, MaxItems)}

\* the items of the arrays of objects and of arrays
GetItems ==
    {JObj(<< <<"a", JStr(<<"x">>)>> >>),
     JObj(<< <<"a", JStr(<<"y">>)>> >>),
     JObj(<< <<"0", JStr(<<"x">>)>> >>),
     JObj(<< <<"a", JArr(<<JStr(<<"x">>), JStr(<<"y">>)>>)>> >>),
     JArr(<<JStr(<<"y">>), JStr(<<"x">>)>>),
     JStr(<<"y">>)}

ItemArrays == {JArr(a) : a \in SeqsUpTo(GetItems, MaxItems)}

GetNodes == GetScalars \cup ScalarObjects \cup ScalarArrays \cup ItemArrays

NestedObjects == {JObj(<< <<k, v>> >>) : k \in {"0", "a"}, v \in GetNodes}

GetDocs ==
    GetNodes \cup NestedObjects
    \cup {JObj(<< <<"a", v>> >>) : v \in NestedObjects}

GetPaths == SeqsUpTo({"0", "1", "a"}, MaxPathLen)

GetInputs == {[doc |-> v, path |-> p] : v \in GetDocs, p \in GetPaths}

InitGet ==
    /\ keys = <<>>
    /\ records = <<>>
    /\ cache = <<>>
    /\ registry = <<>>
    /\ threads = <<>>
    /\ op = "input"
    /\ arg \in GetInputs
    /\ res = <<>>

\* path.get(obj)
Get ==
    /\ op = "input"
    /\ op' = "get"
    /\ res' = get(arg.path, arg.doc)
    /\ UNCHANGED <<registry, threads, keys, records, cache, arg>>

\* the selection of the value of the first segment in get_value
SegmentValue ==
    /\ op = "input"
    /\ arg.path # <<>>
    /\ op' = "segment_value"
    /\ res' = segment_value(arg.doc, arg.path[1])
    /\ UNCHANGED <<registry, threads, keys, records, cache, arg>>

NextGet ==
    \/ Get
    \/ SegmentValue

SpecGet == InitGet /\ [][NextGet]_vars

---------------------------------------------------------------------------
(* The searcher registry and Fuse::search *)

MaxRegistered == 2

\* the conditions a registration can carry: ExtendedSearch::condition and two
\* conditions of a caller
Conditions == {"ExtendedSearch::condition", "always", "never"}

\* condition(&pattern, &options)
condition_holds(condition, pattern, options) ==
    CASE condition = "ExtendedSearch::condition" -> options.use_extended_search
      [] condition = "always" -> TRUE
      [] condition = "never" -> FALSE

\* the searchers a factory or the fallback can box
Factories == {"ExtendedSearch", "BitmapSearch"}

\* Box<dyn Searcher>: the type that was boxed, with what it was made from
BoxedSearcher(type, pattern, options) ==
    [searcher |-> type, pattern |-> pattern, options |-> options]

\* register: the registry afterwards
register(reg, condition, factory) == Append(reg, <<condition, factory>>)

RECURSIVE create_searcher_from(_, _, _, _)
\* the loop of create_searcher from the k-th registration, and the fallback
create_searcher_from(reg, k, pattern, options) ==
    IF k > Len(reg)
    THEN BoxedSearcher("BitmapSearch", pattern, options)
    ELSE IF condition_holds(reg[k][1], pattern, options)
    THEN BoxedSearcher(reg[k][2], pattern, options)
    ELSE create_searcher_from(reg, k + 1, pattern, options)

create_searcher(reg, pattern, options) ==
    create_searcher_from(reg, 1, pattern, options)

ExtendedSearchUnavailable == <<"ExtendedSearchUnavailable">>

\* Fuse::search
fuse_search(options, term) ==
    IF options.use_extended_search
    THEN [kind |-> "err", err |-> ExtendedSearchUnavailable, items |-> <<>>]
    ELSE IF options.max_pattern_length.some
            /\ Len(term) > options.max_pattern_length.v
    THEN [kind |-> "err",
          err |-> PatternLengthTooLarge(options.max_pattern_length.v),
          items |-> <<>>]
    ELSE [kind |-> "ok", err |-> <<>>, items |-> <<>>]

RegistryPatterns == {<<>>, <<"a">>, <<"a", "b">>}

RegistryOptions ==
    {[use_extended_search |-> e, max_pattern_length |-> m] :
        e \in BOOLEAN, m \in {None, Some(1)}}

\* REGISTERED_SEARCHERS starts empty, and the library registers nothing
InitRegistry ==
    /\ keys = <<>>
    /\ records = <<>>
    /\ cache = <<>>
    /\ registry = <<>>
    /\ threads = <<>>
    /\ op = "init"
    /\ arg = <<>>
    /\ res = <<>>

Register(condition, factory) ==
    /\ Len(registry) < MaxRegistered
    /\ registry' = register(registry, condition, factory)
    /\ op' = "register"
    /\ arg' = <<condition, factory>>
    /\ res' = <<>>
    /\ UNCHANGED <<keys, records, cache, threads>>

CreateSearcher(pattern, options) ==
    /\ op' = "create_searcher"
    /\ arg' = [pattern |-> pattern, options |-> options]
    /\ res' = create_searcher(registry, pattern, options)
    /\ UNCHANGED <<keys, records, cache, registry, threads>>

FuseSearch(term, options) ==
    /\ op' = "search"
    /\ arg' = [pattern |-> term, options |-> options]
    /\ res' = fuse_search(options, term)
    /\ UNCHANGED <<keys, records, cache, registry, threads>>

NextRegistry ==
    \/ \E condition \in Conditions, factory \in Factories :
          Register(condition, factory)
    \/ \E pattern \in RegistryPatterns, options \in RegistryOptions :
          CreateSearcher(pattern, options)
    \/ \E term \in RegistryPatterns, options \in RegistryOptions :
          FuseSearch(term, options)

SpecRegistry == InitRegistry /\ [][NextRegistry]_vars

---------------------------------------------------------------------------
(* One Norm shared by several threads.  A thread is idle, or inside get or
   clear; the mutex of the cache is held by the thread that is between its
   lock and the end of its call. *)

NumThreads == 2

Threads == 1..NumThreads

\* the strings the threads pass to get: one, one and two tokens
NormValues == {<<"a">>, <<"b">>, <<"a", " ", "b">>}

IdleThread ==
    [pc |-> "idle", value |-> <<>>, num_tokens |-> 0, n |-> NoNorm,
     hit |-> FALSE]

\* the positions at which a thread holds the MutexGuard of the cache
LockedPositions == {"get_locked", "get_miss", "clear_locked"}

MutexIsFree == \A t \in Threads : threads[t].pc \notin LockedPositions

\* HashMap::insert
cache_insert_at_next_key(c, k, v) ==
    [j \in DOMAIN c \cup {k + 1} |-> IF j = k + 1 THEN v ELSE c[j]]
cache_insert(c, k, v) ==
    [j \in DOMAIN c \cup {k} |-> IF j = k THEN v ELSE c[j]]

\* what the calls have returned and stored so far: <<token count, value>>
\* pairs, and whether a clear has been completed
NormHistory(returned, inserted, cleared) ==
    [returned |-> returned, inserted |-> inserted, cleared |-> cleared]

InitNorm ==
    /\ keys = <<>>
    /\ records = <<>>
    /\ cache = <<>>
    /\ registry = <<>>
    /\ threads = [t \in Threads |-> IdleThread]
    /\ op = "new"
    /\ arg = 0
    /\ res = NormHistory({}, {}, FALSE)

\* a thread calls get(value) and counts the tokens
NormGetCall(t, value) ==
    /\ threads[t].pc = "idle"
    /\ threads' = [threads EXCEPT ![t] =
            [IdleThread EXCEPT !.pc = "get_lock", !.value = value,
                               !.num_tokens = NumTokens(value)]]
    /\ op' = "get"
    /\ arg' = t
    /\ UNCHANGED <<keys, records, cache, registry, res>>

\* self.cache.lock() in get
NormGetLock(t) ==
    /\ threads[t].pc = "get_lock"
    /\ MutexIsFree
    /\ threads' = [threads EXCEPT ![t].pc = "get_locked"]
    /\ op' = "get_lock"
    /\ arg' = t
    /\ UNCHANGED <<keys, records, cache, registry, res>>

\* cache.get(&num_tokens): a hit returns the cached value and drops the guard
NormGetLookup(t) ==
    /\ threads[t].pc = "get_locked"
    /\ IF threads[t].num_tokens \in DOMAIN cache
       THEN /\ threads' = [threads EXCEPT
                    ![t].pc = "returned",
                    ![t].n = cache[threads[t].num_tokens],
                    ![t].hit = TRUE]
            /\ res' = [res EXCEPT !.returned = res.returned \cup
                          {<<threads[t].num_tokens, cache[threads[t].num_tokens]>>}]
       ELSE /\ threads' = [threads EXCEPT ![t].pc = "get_miss"]
            /\ res' = res
    /\ op' = "get_lookup"
    /\ arg' = t
    /\ UNCHANGED <<keys, records, cache, registry>>

\* the norm is computed, inserted and returned, and the guard is dropped
NormGetInsert(t) ==
    /\ threads[t].pc = "get_miss"
    /\ cache' = cache_insert(cache, threads[t].num_tokens,
                             ComputeNorm(threads[t].num_tokens))
    /\ threads' = [threads EXCEPT
            ![t].pc = "returned",
            ![t].n = ComputeNorm(threads[t].num_tokens)]
    /\ res' = [res EXCEPT
            !.returned = res.returned \cup
                {<<threads[t].num_tokens, ComputeNorm(threads[t].num_tokens)>>},
            !.inserted = res.inserted \cup
                {<<k, cache'[k]>> : k \in DOMAIN cache'}]
    /\ op' = "get_insert"
    /\ arg' = t
    /\ UNCHANGED <<keys, records, registry>>

\* the caller has the value of get and goes on
NormReturn(t) ==
    /\ threads[t].pc = "returned"
    /\ threads' = [threads EXCEPT ![t] = IdleThread]
    /\ op' = "return"
    /\ arg' = t
    /\ UNCHANGED <<keys, records, cache, registry, res>>

\* a thread calls clear
NormClearCall(t) ==
    /\ threads[t].pc = "idle"
    /\ threads' = [threads EXCEPT ![t].pc = "clear_lock"]
    /\ op' = "clear"
    /\ arg' = t
    /\ UNCHANGED <<keys, records, cache, registry, res>>

\* self.cache.lock() in clear
NormClearLock(t) ==
    /\ threads[t].pc = "clear_lock"
    /\ MutexIsFree
    /\ threads' = [threads EXCEPT ![t].pc = "clear_locked"]
    /\ op' = "clear_lock"
    /\ arg' = t
    /\ UNCHANGED <<keys, records, cache, registry, res>>

\* HashMap::clear, and the guard is dropped
NormClear(t) ==
    /\ threads[t].pc = "clear_locked"
    /\ cache' = <<>>
    /\ threads' = [threads EXCEPT ![t] = IdleThread]
    /\ res' = [res EXCEPT !.cleared = TRUE]
    /\ op' = "clear_done"
    /\ arg' = t
    /\ UNCHANGED <<keys, records, registry>>

NextNorm ==
    \E t \in Threads :
        \/ \E value \in NormValues : NormGetCall(t, value)
        \/ NormGetLock(t)
        \/ NormGetLookup(t)
        \/ NormGetInsert(t)
        \/ NormReturn(t)
        \/ NormClearCall(t)
        \/ NormClearLock(t)
        \/ NormClear(t)

SpecNorm == InitNorm /\ [][NextNorm]_vars

---------------------------------------------------------------------------
(* The default sort function.  A score is the f64 1/2 + k * 2^-53, written as
   the integer k: these are consecutive f64 values, their differences are
   exact, and f64::EPSILON = 2^-52 is two steps. *)

MaxScoreStep == 3
MaxIdx == 2

EPSILON == 2

FuseSortFunctionArg(idx, score) == [idx |-> idx, score |-> score]

default_sort_fn(a, b) ==
    IF Abs(a.score - b.score) < EPSILON
    THEN IF a.idx < b.idx THEN -1 ELSE 1
    ELSE IF a.score < b.score THEN -1 ELSE 1

SortArgs ==
    {FuseSortFunctionArg(idx, score) :
        idx \in 0..MaxIdx, score \in 0..MaxScoreStep}

SortInputs == [a : SortArgs, b : SortArgs]

InitSort ==
    /\ keys = <<>>
    /\ records = <<>>
    /\ cache = <<>>
    /\ registry = <<>>
    /\ threads = <<>>
    /\ op = "input"
    /\ arg \in SortInputs
    /\ res = 0

DefaultSortFn ==
    /\ op = "input"
    /\ op' = "default_sort_fn"
    /\ res' = default_sort_fn(arg.a, arg.b)
    /\ UNCHANGED <<keys, records, cache, registry, threads, arg>>

NextSort == DefaultSortFn

SpecSort == InitSort /\ [][NextSort]_vars

---------------------------------------------------------------------------
(* KeyStore.  Weights are whole f64 values, written as integers; a weight
   after normalization is a fraction. *)

MaxKeys == 2

\* FuseOptionKey, with the same fields for its three variants; name is the
\* string of String and KeyObject, path the array of StringArray and of a
\* KeyObject named by an array
KeyString(s) == [k |-> "String", name |-> s, path |-> <<>>, weight |-> None]
KeyStringArray(arr) == [k |-> "StringArray", name |-> <<>>, path |-> arr, weight |-> None]
KeyObjectString(name, weight) == [k |-> "KeyObjectString", name |-> name, path |-> <<>>, weight |-> weight]
KeyObjectArray(arr, weight) == [k |-> "KeyObjectArray", name |-> <<>>, path |-> arr, weight |-> weight]

RECURSIVE split_from(_, _, _, _)
\* str::split: the pieces of s between the separators, from position k on,
\* piece being the piece that is open
split_from(s, sep, k, piece) ==
    IF k > Len(s) THEN <<piece>>
    ELSE IF s[k] = sep
    THEN <<piece>> \o split_from(s, sep, k + 1, <<>>)
    ELSE split_from(s, sep, k + 1, Append(piece, s[k]))

create_key_path(key) == split_from(key, ".", 1, <<>>)

\* tools::key_store::Key
StoreKey(path, id, weight, src) ==
    [path |-> path, id |-> id, weight |-> weight, src |-> src]

\* the outcomes of create_key and KeyStore::new: a value, or the panic of
\* the thread with its message
KeysOk(v) == [kind |-> "ok", v |-> v, message |-> <<>>]
KeysPanic(weight, id) ==
    [kind |-> "panic", v |-> <<>>, message |-> <<"Invalid weight", weight, id>>]

\* the path of a key
key_path(key) ==
    IF key.k \in {"String", "KeyObjectString"}
    THEN create_key_path(key.name)
    ELSE key.path

\* the src of a key
key_src(key) ==
    IF key.k \in {"String", "KeyObjectString"}
    THEN key.name
    ELSE join(key.path, <<".">>)

create_key(key) ==
    IF key.weight.some /\ key.weight.v <= 0
    THEN KeysPanic(key.weight.v, join(key_path(key), <<".">>))
    ELSE KeysOk(StoreKey(key_path(key), create_key_id(key_path(key)),
                         IF key.weight.some THEN key.weight.v ELSE 1,
                         key_src(key)))

RECURSIVE raw_keys_from(_, _, _)
\* the first loop of KeyStore::new from the k-th key on
raw_keys_from(ks, k, raw_keys) ==
    IF k > Len(ks) THEN KeysOk(raw_keys)
    ELSE IF create_key(ks[k]).kind # "ok" THEN create_key(ks[k])
    ELSE raw_keys_from(ks, k + 1, Append(raw_keys, create_key(ks[k]).v))

RECURSIVE total_weight_of(_)
total_weight_of(raw_keys) ==
    IF raw_keys = <<>> THEN 0
    ELSE raw_keys[1].weight + total_weight_of(Tail(raw_keys))

\* the closure normalize of KeyStore::new
normalize(w, total_weight) ==
    IF total_weight > 0 THEN Frac(w, total_weight) ELSE Frac(w, 1)

\* KeyStore::new
key_store_new(ks) ==
    IF raw_keys_from(ks, 1, <<>>).kind # "ok"
    THEN raw_keys_from(ks, 1, <<>>)
    ELSE KeysOk([k \in 1..Len(ks) |->
            [raw_keys_from(ks, 1, <<>>).v[k] EXCEPT
                !.weight = normalize(raw_keys_from(ks, 1, <<>>).v[k].weight,
                               total_weight_of(raw_keys_from(ks, 1, <<>>).v))]])

KeyWeights == {None, Some(-1), Some(0), Some(1), Some(2)}

OptionKeys ==
    {KeyString(<<"a">>), KeyString(<<"a", ".", "b">>),
     KeyStringArray(<<<<"a">>>>), KeyStringArray(<<<<"a">>, <<"b">>>>)}
    \cup {KeyObjectString(n, w) : n \in {<<"b">>, <<"a", ".", "b">>}, w \in KeyWeights}
    \cup {KeyObjectArray(<<<<"a">>, <<"c">>>>, w) : w \in KeyWeights}

KeysInputs == SeqsUpTo(OptionKeys, MaxKeys)

InitKeys ==
    /\ keys = <<>>
    /\ records = <<>>
    /\ cache = <<>>
    /\ registry = <<>>
    /\ threads = <<>>
    /\ op = "input"
    /\ arg \in KeysInputs
    /\ res = <<>>

\* create_key of the first key
CreateKey ==
    /\ op = "input"
    /\ arg # <<>>
    /\ op' = "create_key"
    /\ res' = create_key(arg[1])
    /\ UNCHANGED <<keys, records, cache, registry, threads, arg>>

\* KeyStore::new(keys)
KeyStoreNew ==
    /\ op = "input"
    /\ op' = "key_store_new"
    /\ res' = key_store_new(arg)
    /\ UNCHANGED <<keys, records, cache, registry, threads, arg>>

NextKeys ==
    \/ CreateKey
    \/ KeyStoreNew

SpecKeys == InitKeys /\ [][NextKeys]_vars

---------------------------------------------------------------------------
(* compute_score applied to a pattern length, an error count and two
   locations *)

MaxScoreLen == 3
MaxLocation == 3

\* the distances of the calls: none, shorter than and longer than the
\* locations, and the default
ScoreDistances == {0, 1, 2, DefaultOptions.distance}

ScoreOptions ==
    {[DefaultOptions EXCEPT !.distance = d, !.ignore_location = b] :
        d \in ScoreDistances, b \in BOOLEAN}

\* the pattern by its length, errors no more than its length
ScoreInputs ==
    {a \in [pattern_len : 1..MaxScoreLen, errors : 0..MaxScoreLen,
            current_location : 0..MaxLocation,
            expected_location : 0..MaxLocation, options : ScoreOptions] :
        a.errors <= a.pattern_len}

InitScore ==
    /\ keys = <<>>
    /\ records = <<>>
    /\ cache = <<>>
    /\ registry = <<>>
    /\ threads = <<>>
    /\ op = "input"
    /\ arg \in ScoreInputs
    /\ res = FZero

\* compute_score(pattern, errors, current_location, expected_location,
\* options)
ComputeScore ==
    /\ op = "input"
    /\ op' = "compute_score"
    /\ res' = compute_score(arg.pattern_len, arg.errors,
                            arg.current_location, arg.expected_location,
                            arg.options)
    /\ UNCHANGED <<keys, records, cache, registry, threads, arg>>

NextScore == ComputeScore

SpecScore == InitScore /\ [][NextScore]_vars

---------------------------------------------------------------------------
(* BitmapSearch::new applied to patterns around and beyond MAX_BITS *)

MaxChunks == 3

\* the characters of the chunked patterns, in a period that does not divide
\* MAX_BITS
ChunkChars == <<"a", "b", "A">>

ChunkPattern(n, s) == [k \in 1..n |-> ChunkChars[((k + s) % 3) + 1]]

ChunkPatterns ==
    {ChunkPattern(n, s) : n \in 0..(MaxChunks * MAX_BITS), s \in 0..1}

ChunkOptions ==
    {[DefaultOptions EXCEPT !.is_case_sensitive = cs] : cs \in BOOLEAN}

ChunkInputs == [pattern : ChunkPatterns, options : ChunkOptions]

InitChunks ==
    /\ keys = <<>>
    /\ records = <<>>
    /\ cache = <<>>
    /\ registry = <<>>
    /\ threads = <<>>
    /\ op = "input"
    /\ arg \in ChunkInputs
    /\ res = <<>>

\* BitmapSearch::new(pattern, options)
BitmapSearchNew ==
    /\ op = "input"
    /\ op' = "new"
    /\ res' = BitmapSearch(arg.pattern, arg.options)
    /\ UNCHANGED <<keys, records, cache, registry, threads, arg>>

NextChunks == BitmapSearchNew

SpecChunks == InitChunks /\ [][NextChunks]_vars

---------------------------------------------------------------------------
(* Claims about the record index *)

\* C1: after any sequence of add and remove_at calls on an index that
\* started empty, the record indices are exactly 0 .. size-1 and the record
\* stored at position p has i = p.
C1_RecordIndexDense ==
    /\ {records[p].i : p \in 1..Len(records)} = 0..(size(records) - 1)
    /\ \A p \in 1..Len(records) : records[p].i = p - 1

\* a removal in front of two surviving records, after which both were renumbered
C1_Witness ==
    /\ op = "remove_at"
    /\ arg = 0
    /\ size(records) = 2

\* whether add stores a record for the document
BuildsRecord(doc) == ~(doc.t = "str" /\ doc.s = <<>>)

\* the position (from 1) in records of the record set_source built from
\* source[k]: add appends, so it is the number of documents up to k that
\* built one
BuiltAt(source, k) == Cardinality({j \in 1..k : BuildsRecord(source[j])})

\* C6: after set_source, the record built from the document at input
\* position k has record index i = k, for every input position k.
C6_InputPositionKept ==
    op = "set_source" =>
        \A k \in 1..Len(arg) :
            BuildsRecord(arg[k]) => records[BuiltAt(arg, k)].i = k - 1

AllEntryValues(rec) ==
    UNION {IF rec.entries[slot].kind = "Single"
           THEN {rec.entries[slot].val}
           ELSE Range(rec.entries[slot].arr) : slot \in DOMAIN rec.entries}

\* C7: after any sequence of add calls no IndexValue stored in the index has
\* an empty text v: not a string record, not a scalar key slot, not an
\* element of an array key slot.
C7_NoEmptyIndexValue ==
    \A p \in 1..Len(records) :
        /\ records[p].kind = "String" => records[p].v # <<>>
        /\ records[p].kind = "Object" =>
               \A iv \in AllEntryValues(records[p]) : iv.v # <<>>

---------------------------------------------------------------------------
(* Claims about the bitap searches *)

InUnitRange(score) == FLeq(Frac(1, 1000), score) /\ FLeq(score, FOne)

\* C2: every SearchResult returned by BitmapSearch.search_in and by the
\* kernel search has a score in [0.001, 1.0]; the score is never 0.0.
C2_ScoreInRange ==
    (op \in {"search", "search_in"} /\ res.kind = "ok")
        => InUnitRange(res.score)

\* C3: when the normalized text equals the normalized pattern (of at most
\* MAX_BITS characters), search_in returns is_match = true with a score
\* below 0.1 and, with include_matches, the indices [(0, |T| - 1)].
C3_TextEqualsPattern ==
    (/\ op = "search_in"
     /\ Len(arg.pattern) <= MAX_BITS
     /\ Normalize(arg.text, arg.options) = Normalize(arg.pattern, arg.options))
        => /\ res.kind = "ok"
           /\ res.is_match
           /\ FLt(res.score, Frac(1, 10))
           /\ arg.options.include_matches
                  => res.indices = Some(<< <<0, Len(arg.text) - 1>> >>)

\* C4: the kernel returns the error PatternLengthTooLarge(MAX_BITS) when the
\* pattern is longer than MAX_BITS, and returns a result for every pattern
\* of length 1..MAX_BITS.
C4_PatternLengthCheck ==
    op = "search"
        => IF Len(arg.pattern) > MAX_BITS
           THEN res = Err(PatternLengthTooLarge(MAX_BITS))
           ELSE res.kind = "ok"

\* the maximal runs of set positions of a mask that are at least k long, as
\* inclusive pairs of offsets from 0
MaximalRuns(mask, k) ==
    {r \in (0..(Len(mask) - 1)) \X (0..(Len(mask) - 1)) :
        /\ r[1] <= r[2]
        /\ r[2] - r[1] + 1 >= k
        /\ \A q \in r[1]..r[2] : mask[q + 1]
        /\ r[1] = 0 \/ ~mask[r[1]]
        /\ r[2] = Len(mask) - 1 \/ ~mask[r[2] + 2]}

IsAscending(pairs) ==
    \A x, y \in 1..Len(pairs) : x < y => pairs[x][2] < pairs[y][1]

\* C8: with min_match_char_length = k the kernel emits exactly the maximal
\* runs of the match mask that are at least k long, in order, and when there
\* is no such run the result is is_match = false without indices.
C8_MinMatchRuns ==
    (/\ op = "search"
     /\ res.kind = "ok"
     /\ arg.options.min_match_char_length > 1 \/ arg.options.include_matches)
        => LET runs == MaximalRuns(res.match_mask,
                                   arg.options.min_match_char_length)
           IN  /\ runs = {} => ~res.is_match /\ ~res.indices.some
               /\ (runs # {} /\ arg.options.include_matches)
                      => /\ res.indices.some
                         /\ Range(res.indices.v) = runs
                         /\ IsAscending(res.indices.v)
               /\ ~arg.options.include_matches => ~res.indices.some

\* a search with min_match_char_length = 2 that found a location within the
\* threshold and is reported as no match because only shorter runs are set
C8_Witness ==
    /\ op = "search"
    /\ res.kind = "ok"
    /\ arg.options.min_match_char_length = 2
    /\ \E q \in 1..Len(res.match_mask) : res.match_mask[q]
    /\ ~res.is_match
    /\ search(arg.text, arg.pattern, create_pattern_alphabet(arg.pattern),
              [arg.options EXCEPT !.min_match_char_length = 1,
                                  !.include_matches = FALSE]).is_match

---------------------------------------------------------------------------
(* Claims about the extended search *)

\* the matchers of a group all return a match on the text
GroupMatches(searchers, text, o) ==
    \A k \in 1..Len(searchers) : \A build \in Builds :
        /\ matcher_search(searchers[k], text, o, build).kind = "ok"
        /\ matcher_search(searchers[k], text, o, build).is_match

RECURSIVE SumScores(_, _, _, _)
SumScores(searchers, text, o, k) ==
    IF k > Len(searchers) THEN FZero
    ELSE FAdd(matcher_search(searchers[k], text, o, "debug").score,
              SumScores(searchers, text, o, k + 1))

\* the groups of the parsed query whose matchers all match the text
MatchingGroups(es, text) ==
    {g \in 1..Len(es.query) : GroupMatches(es.query[g], text, es.options)}

FirstOf(S) == CHOOSE g \in S : \A h \in S : g <= h

\* C5: ExtendedSearch.search_in returns is_match = true iff some group has
\* every one of its matchers matching the text; the first such group
\* decides the result; if no group succeeds the result is is_match = false
\* with score 1.0.
C5_OrOfAnd ==
    op = "extended_search_in"
        => LET es == ExtendedSearch(arg.pattern, arg.options)
               text == Normalize(arg.text, arg.options)
               winners == MatchingGroups(es, text)
           IN  /\ res.kind = "ok"
               /\ res.is_match <=> winners # {}
               /\ winners = {} => res.score = FOne
               /\ (winners # {} /\ es.query[FirstOf(winners)] # <<>>)
                      => res.score =
                             FDivInt(SumScores(es.query[FirstOf(winners)],
                                               text, es.options, 1),
                                     Len(es.query[FirstOf(winners)]))

\* C9: each of the seven non-fuzzy matchers returns score 0.0 on a match
\* and score 1.0 on a non-match, and a non-match carries no index ranges.
C9_NonFuzzyScores ==
    (op = "matcher_search" /\ arg.type \in NonFuzzyTypes /\ res.kind = "ok")
        => /\ res.is_match => res.score = FZero
           /\ ~res.is_match
                  => /\ res.score = FOne
                     /\ ~res.indices.some \/ res.indices.v = <<>>

\* a query that is one unquoted token !x$
IsBareInverseSuffix(q) ==
    /\ Len(q) >= 2
    /\ q[1] = "!"
    /\ q[Len(q)] = "$"
    /\ \A k \in 1..Len(q) : q[k] \notin {" ", OR_TOKEN}
    /\ ~(Len(q) >= 4 /\ q[2] = QUOTE /\ q[Len(q) - 1] = QUOTE)

\* the x of !x$
TermOf(q) == SubSeq(q, 2, Len(q) - 1)

\* the outcome for the query !x$: one inverse-suffix-exact matcher
\* with pattern x, matching the texts that do not end with x
InverseSuffixOutcome ==
    /\ op = "parse_query"
           => res = << <<Matcher("inverse-suffix-exact",
                                 TermOf(arg.pattern))>> >>
    /\ op = "extended_search_in"
           => /\ res.kind = "ok"
              /\ res.is_match <=>
                     ~ends_with(Normalize(arg.text, arg.options),
                                Normalize(TermOf(arg.pattern), arg.options))

\* C10 as stated: parse_query classifies every bare token !x$ as
\* inverse-suffix-exact with pattern x, and the query !x$ matches exactly
\* the texts that do not end with x.
C10_BareInverseSuffix ==
    (op \in {"parse_query", "extended_search_in"}
        /\ IsBareInverseSuffix(arg.pattern))
        => InverseSuffixOutcome

\* C10 amended: the same for every x that does not begin with ^ (a token
\* !^...$ is taken by the inverse-prefix-exact matcher, tried earlier).
C10_BareInverseSuffixNoCaret ==
    (op \in {"parse_query", "extended_search_in"}
        /\ IsBareInverseSuffix(arg.pattern)
        /\ arg.pattern[2] # "^")
        => InverseSuffixOutcome

\* the query !x$ with a non-empty x rejects a text that ends with x
C10_Witness ==
    /\ op = "extended_search_in"
    /\ IsBareInverseSuffix(arg.pattern)
    /\ arg.pattern[2] # "^"
    /\ TermOf(arg.pattern) # <<>>
    /\ arg.text # <<>>
    /\ res.kind = "ok"
    /\ ~res.is_match

---------------------------------------------------------------------------
(* Claims about the logical query parser *)

\* the members of the object that was parsed, for both entry points
QueryMembers ==
    IF arg.api = "parse_value"
    THEN IF arg.q.t = "obj" THEN arg.q.o ELSE <<>>
    ELSE IF arg.q.e = "KeyValue" THEN StringMap(arg.q.map) ELSE <<>>

\* a key/value query: two keys or more, none of them $and, $or or $path, every
\* value a string
IsKeyValueQuery(o) ==
    /\ Len(o) >= 2
    /\ \A k \in 1..Len(o) : o[k][1] \notin {AND, OR, PATH} /\ o[k][2].t = "str"

\* C11: parsing a key/value query object with n >= 2 keys (none of them $and,
\* $or or $path) yields a top-level AND node with exactly n children, all of
\* them leaves, one per key, the leaf of a key having that key as its key_id
\* and the key's string value as its pattern.
C11_ImplicitAnd ==
    (op \in {"parse_value", "parse"} /\ IsKeyValueQuery(QueryMembers)) =>
        /\ res.kind = "ok"
        /\ res.node.type = "Logical"
        /\ res.node.operator = AND
        /\ Len(res.node.children) = Len(QueryMembers)
        /\ \A c \in 1..Len(res.node.children) : res.node.children[c].type = "Leaf"
        /\ \A k \in 1..Len(QueryMembers) :
              Cardinality({c \in 1..Len(res.node.children) :
                  /\ res.node.children[c].key_id = QueryMembers[k][1]
                  /\ res.node.children[c].pattern = QueryMembers[k][2].s}) = 1

\* a value object of three keys was parsed, and the leaf of its last key came
\* out first
C11_Witness ==
    /\ op = "parse_value"
    /\ IsKeyValueQuery(QueryMembers)
    /\ Len(QueryMembers) = 3
    /\ res.kind = "ok"
    /\ Len(res.node.children) = 3
    /\ res.node.children[1].key_id = QueryMembers[3][1]

\* a path/value leaf: $path, and nothing but $path and $val
IsPathLeaf(v) ==
    /\ v.t = "obj"
    /\ contains_key(v.o, PATH)
    /\ \A k \in 1..Len(v.o) : v.o[k][1] \in {PATH, PATTERN}

\* a key/value object: one key or more, none of them $and, $or, $path
IsKeyValueObject(v) ==
    /\ v.t = "obj"
    /\ v.o # <<>>
    /\ \A k \in 1..Len(v.o) : v.o[k][1] \notin {AND, OR, PATH}

RECURSIVE IsQueryTree(_)
\* the trees of the input grammar, whatever the values of their leaves: a
\* leaf, or one operator with an array of trees
IsQueryTree(v) ==
    \/ IsPathLeaf(v)
    \/ IsKeyValueObject(v)
    \/ /\ v.t = "obj"
       /\ Len(v.o) = 1
       /\ v.o[1][1] \in {AND, OR}
       /\ v.o[1][2].t = "arr"
       /\ \A k \in 1..Len(v.o[1][2].a) : IsQueryTree(v.o[1][2].a[k])

\* the errors a malformed path/value leaf may report: $path when it is not a
\* list of strings, $val when it is missing or not a string
PathLeafErrors(o) ==
    {InvalidLogicalQueryForKey(PATH) : x \in
        {k \in 1..Len(o) : o[k][1] = PATH /\
            (o[k][2].t # "arr" \/ \E e \in 1..Len(o[k][2].a) : o[k][2].a[e].t # "str")}}
    \cup {InvalidLogicalQueryForKey(PATTERN) : x \in
        {k \in 1..1 : \A m \in 1..Len(o) : o[m][1] = PATTERN => o[m][2].t # "str"}}

RECURSIVE FirstLeafErrors(_)
RECURSIVE FirstLeafErrorsFrom(_, _)
\* the errors of the malformed leaves of a tree that no malformed leaf
\* precedes in child order; the keys of one object are siblings without an
\* order among them
FirstLeafErrors(v) ==
    IF IsPathLeaf(v) THEN PathLeafErrors(v.o)
    ELSE IF IsKeyValueObject(v)
    THEN {InvalidLogicalQueryForKey(v.o[k][1]) :
            k \in {m \in 1..Len(v.o) : v.o[m][2].t # "str"}}
    ELSE FirstLeafErrorsFrom(v.o[1][2].a, 1)

FirstLeafErrorsFrom(arr, k) ==
    IF k > Len(arr) THEN {}
    ELSE IF FirstLeafErrors(arr[k]) # {} THEN FirstLeafErrors(arr[k])
    ELSE FirstLeafErrorsFrom(arr, k + 1)

\* C12: the parser returns InvalidLogicalQueryForKey for every malformed leaf
\* (a key whose value is not a string, a $path that is not a list of strings,
\* a missing or non-string $val); when a tree of $and and $or holds such a
\* leaf, the parse returns the error of the first malformed leaf in child
\* order, as the leaf reports it, and no tree.
C12_FirstLeafError ==
    (op = "parse_value" /\ IsQueryTree(arg.q) /\ FirstLeafErrors(arg.q) # {}) =>
        /\ res.kind = "err"
        /\ res.err \in FirstLeafErrors(arg.q)
        /\ res.err[1] = "InvalidLogicalQueryForKey"

\* a tree whose second child is an operator node whose second child is the
\* first malformed leaf, and the parse reported the key of that leaf
C12_Witness ==
    /\ op = "parse_value"
    /\ IsQueryTree(arg.q)
    /\ arg.q.o[1][1] \in {AND, OR}
    /\ Len(arg.q.o[1][2].a) = 2
    /\ FirstLeafErrors(arg.q.o[1][2].a[1]) = {}
    /\ arg.q.o[1][2].a[2].o[1][1] \in {AND, OR}
    /\ FirstLeafErrors(arg.q.o[1][2].a[2]) = {InvalidLogicalQueryForKey(<<"c">>)}
    /\ res = ParseErr(InvalidLogicalQueryForKey(<<"c">>))

---------------------------------------------------------------------------
(* Claims about the path extractor *)

\* the child a segment names: a position of an array when the segment is a
\* numeric literal, a key of an object in every other case
NamedChild(node, seg) ==
    IF node.t = "arr" /\ seg \in NumericSegments
    THEN JGetIndex(node, ParseUsize(seg))
    ELSE JGetKey(node, seg)

RECURSIVE ReachedLeaves(_, _, _)
RECURSIVE ReachedLeavesOfItems(_, _, _, _)
\* the texts of the scalar leaves (strings, numbers, booleans) the path
\* reaches from a node, in document order; an array value branches into its
\* items
ReachedLeaves(node, path, index) ==
    IF index >= Len(path)
    THEN IF node.t \in {"str", "num", "bool"} THEN <<node.s>> ELSE <<>>
    ELSE IF ~NamedChild(node, path[index + 1]).some THEN <<>>
    ELSE IF NamedChild(node, path[index + 1]).v.t = "arr"
    THEN ReachedLeavesOfItems(NamedChild(node, path[index + 1]).v.a, 1, path, index + 1)
    ELSE ReachedLeaves(NamedChild(node, path[index + 1]).v, path, index + 1)

ReachedLeavesOfItems(items, k, path, index) ==
    IF k > Len(items) THEN <<>>
    ELSE ReachedLeaves(items[k], path, index)
            \o ReachedLeavesOfItems(items, k + 1, path, index)

RECURSIVE Branches(_, _, _)
\* the path meets an array value before it branches or ends
Branches(node, path, index) ==
    /\ index < Len(path)
    /\ NamedChild(node, path[index + 1]).some
    /\ \/ NamedChild(node, path[index + 1]).v.t = "arr"
       \/ Branches(NamedChild(node, path[index + 1]).v, path, index + 1)

\* C13: for every value tree and path, get returns None when the path
\* resolves to no scalar leaf, the single text when a leaf is reached without
\* array branching, and the array of the texts of all reached leaves, in
\* document order, when array branching occurred.
C13_GetResolves ==
    op = "get" =>
        res = IF ReachedLeaves(arg.doc, arg.path, 0) = <<>> THEN None
              ELSE IF Branches(arg.doc, arg.path, 0)
              THEN Some([kind |-> "Array", arr |-> ReachedLeaves(arg.doc, arg.path, 0), s |-> <<>>])
              ELSE Some([kind |-> "String", arr |-> <<>>, s |-> ReachedLeaves(arg.doc, arg.path, 0)[1]])

\* C14: a segment that is a numeric literal indexes by position when the
\* current node is an array; in every other case, a numeric-looking segment
\* on an object included, the segment is looked up as a key of the object.
C14_SegmentLookup ==
    op = "segment_value" =>
        res = IF arg.doc.t = "arr" /\ arg.path[1] \in NumericSegments
              THEN JGetIndex(arg.doc, ParseUsize(arg.path[1]))
              ELSE JGetKey(arg.doc, arg.path[1])

---------------------------------------------------------------------------
(* Claims about the searcher registry *)

\* C15: with only the default registrations of the library (no register call
\* by the user), the searcher selected for (pattern, options) is the extended
\* searcher when options.use_extended_search is true and BitmapSearch
\* otherwise.
C15_DefaultSearcher ==
    (op = "create_searcher" /\ registry = <<>>) =>
        res.searcher = IF arg.options.use_extended_search
                       THEN "ExtendedSearch" ELSE "BitmapSearch"

---------------------------------------------------------------------------
(* Claims about errors of the kernel *)

\* the query is one fuzzy token that is too long for the kernel
IsLongFuzzyQuery(es) ==
    /\ Len(es.query) = 1
    /\ Len(es.query[1]) = 1
    /\ es.query[1][1].type = "fuzzy"
    /\ Len(es.query[1][1].pattern) > MAX_BITS

\* C16: searchers never swallow kernel errors: when the kernel returns
\* PatternLengthTooLarge while a fuzzy matcher, or the fuzzy token of an
\* extended search, evaluates a text, the caller gets that error and not a
\* non-match result.
C16_KernelErrorSurfaced ==
    /\ (op = "matcher_search" /\ arg.type = "fuzzy"
            /\ Len(arg.pattern) > MAX_BITS) =>
          (res.kind = "err" /\ res.err = PatternLengthTooLarge(MAX_BITS))
    /\ (op = "extended_search_in"
            /\ IsLongFuzzyQuery(ExtendedSearch(arg.pattern, arg.options))) =>
          (res.kind = "err" /\ res.err = PatternLengthTooLarge(MAX_BITS))

---------------------------------------------------------------------------
(* Claims about a Norm shared by threads *)

\* no token count with two different values among the pairs
IsFunctional(pairs) ==
    \A p \in pairs, q \in pairs : p[1] = q[1] => p[2] = q[2]

\* C17: for one Norm, under every interleaving of get and clear calls of
\* several threads, get returns the same value for all strings of the same
\* token count, before and after a clear, and the cache never holds two
\* different values for one token count.
C17_NormConsistent ==
    /\ IsFunctional(res.returned \cup res.inserted)
    /\ \A k \in DOMAIN cache : <<k, cache[k]>> \in res.inserted
    /\ \A t \in Threads : \A u \in Threads :
          (threads[t].pc = "returned" /\ threads[u].pc = "returned"
              /\ threads[t].num_tokens = threads[u].num_tokens) =>
                threads[t].n = threads[u].n

\* after a clear, one thread has computed the value for a string and another
\* has the cached value for a different string of the same token count
C17_Witness ==
    /\ res.cleared
    /\ \E t \in Threads : \E u \in Threads :
          /\ threads[t].pc = "returned"
          /\ threads[u].pc = "returned"
          /\ threads[t].value # threads[u].value
          /\ threads[t].num_tokens = threads[u].num_tokens
          /\ ~threads[t].hit
          /\ threads[u].hit
          /\ threads[t].n = threads[u].n

---------------------------------------------------------------------------
(* Claims about the default sort function *)

\* C18: for two results a, b with distinct idx, default_sort_fn(a, b) = -1
\* iff a.score < b.score, or the scores are equal and a.idx < b.idx; and
\* default_sort_fn(b, a) = -default_sort_fn(a, b).
C18_DefaultSort ==
    (op = "default_sort_fn" /\ arg.a.idx # arg.b.idx) =>
        /\ (res = -1) <=>
              \/ arg.a.score < arg.b.score
              \/ arg.a.score = arg.b.score /\ arg.a.idx < arg.b.idx
        /\ default_sort_fn(arg.b, arg.a) = -res

---------------------------------------------------------------------------
(* Claims about the key store *)

InvalidKeyWeightValue(id) == <<"InvalidKeyWeightValue", id>>

\* the keys the call looked at: the first for create_key, all for KeyStore::new
KeysGiven == IF op = "create_key" THEN <<arg[1]>> ELSE arg

HasBadWeight(key) == key.weight.some /\ key.weight.v <= 0

\* the dotted name of a key as the caller wrote it
DottedName(key) ==
    IF key.k \in {"String", "KeyObjectString"} THEN key.name
    ELSE join(key.path, <<".">>)

\* C19: constructing a KeyStore or a Key from a key object whose weight is
\* <= 0 fails with the error value InvalidKeyWeightValue naming that key and
\* produces no KeyStore; keys with weight > 0 or without a weight are
\* accepted.
C19_KeyWeight ==
    op \in {"create_key", "key_store_new"} =>
        IF \E k \in 1..Len(KeysGiven) : HasBadWeight(KeysGiven[k])
        THEN /\ res.kind = "err"
             /\ \E k \in 1..Len(KeysGiven) :
                   /\ HasBadWeight(KeysGiven[k])
                   /\ res.err = InvalidKeyWeightValue(DottedName(KeysGiven[k]))
        ELSE res.kind = "ok"

---------------------------------------------------------------------------
(* Claims about the empty pattern *)

\* C20: for an empty pattern, the prefix-exact and the suffix-exact matcher
\* match every text and return the single index range (|text|-1, |text|-1),
\* or (0, 0) when the text is empty.
C20_EmptyPatternRange ==
    (op = "matcher_search" /\ arg.type \in {"prefix-exact", "suffix-exact"}
        /\ arg.pattern = <<>>) =>
        /\ res.kind = "ok"
        /\ res.is_match
        /\ res.indices =
              IF arg.text = <<>> THEN Some(<< <<0, 0>> >>)
              ELSE Some(<< <<Len(arg.text) - 1, Len(arg.text) - 1>> >>)

---------------------------------------------------------------------------
(* Claims about repeated registrations *)

\* C21: registrations are idempotent: registering a (predicate, constructor)
\* pair that is registered already leaves the registry unchanged, so the
\* registry never holds two entries for one pair.
C21_RegisterIdempotent ==
    \A i \in 1..Len(registry) : \A j \in 1..Len(registry) :
        registry[i] = registry[j] => i = j

---------------------------------------------------------------------------
(* Claims about the explicit form of a query *)

\* C22: convert_to_explicit is idempotent: for every query object q,
\* convert_to_explicit(convert_to_explicit(q)) equals convert_to_explicit(q).
C22_ConvertIdempotent ==
    op = "convert_to_explicit" => convert_to_explicit(res.o) = {res}


---------------------------------------------------------------------------
(* Claims about the classification order of parse_query *)

\* the tokens of the g-th OR piece of the parsed query
TokensOf(pattern, g) ==
    split_space(trim(split_or(pattern, 1, <<>>, <<>>)[g]), 1, <<>>, <<>>)

\* the positions of an order whose quoted form accepts the token
MultiAccepting(order, token) ==
    {k \in 1..Len(order) :
        get_match(token, order[k].multi_prefix, order[k].multi_suffix).some}

\* the positions of an order whose bare form accepts the token
SingleAccepting(order, token) ==
    {k \in 1..Len(order) :
        get_match(token, order[k].single_prefix, order[k].single_suffix).some}

\* the least member of a non-empty set of positions
LeastOf(S) == CHOOSE k \in S : \A j \in S : k <= j

\* the matcher of a token when the classifiers are tried in an order: the
\* quoted forms first, then the bare forms, the first that accepts wins
FirstAccepting(order, token) ==
    IF MultiAccepting(order, token) # {}
    THEN LET s == order[LeastOf(MultiAccepting(order, token))]
         IN  Matcher(s.type,
                     get_match(token, s.multi_prefix, s.multi_suffix).v)
    ELSE LET s == order[LeastOf(SingleAccepting(order, token))]
         IN  Matcher(s.type,
                     get_match(token, s.single_prefix, s.single_suffix).v)

\* parse_query returned one matcher per token, each the first accepting
\* classifier of the order
ClassifiedInOrder(order) ==
    op = "parse_query" =>
        /\ Len(res) = Len(split_or(arg.pattern, 1, <<>>, <<>>))
        /\ \A g \in 1..Len(res) :
              /\ Len(res[g]) = Len(TokensOf(arg.pattern, g))
              /\ \A k \in 1..Len(res[g]) :
                    /\ TokensOf(arg.pattern, g)[k] # <<>>
                    /\ SingleAccepting(order, TokensOf(arg.pattern, g)[k])
                           # {}
                    /\ res[g][k] =
                           FirstAccepting(order, TokensOf(arg.pattern, g)[k])

\* C23 as stated: for each token parse_query tries the quoted classifiers and
\* then the bare ones, each time in the order exact, include, prefix-exact,
\* inverse-prefix-exact, suffix-exact, inverse-suffix-exact, inverse-exact,
\* fuzzy; the first that accepts determines the matcher and every non-empty
\* token yields exactly one matcher.
C23_ClassificationOrder ==
    ClassifiedInOrder(
        <<ExactMatch, IncludeMatch, PrefixExactMatch, InversePrefixExactMatch,
          SuffixExactMatch, InverseSuffixExactMatch, InverseExactMatch,
          FuzzyMatch>>)

\* C23 amended: the same with inverse-suffix-exact tried before suffix-exact,
\* that is in the order exact, include, prefix-exact, inverse-prefix-exact,
\* inverse-suffix-exact, suffix-exact, inverse-exact, fuzzy.
C23_ClassificationOrderOfCode ==
    ClassifiedInOrder(
        <<ExactMatch, IncludeMatch, PrefixExactMatch, InversePrefixExactMatch,
          InverseSuffixExactMatch, SuffixExactMatch, InverseExactMatch,
          FuzzyMatch>>)

\* a token that both suffix classifiers accept was parsed: !a$ became an
\* inverse-suffix-exact matcher
C23_Witness ==
    /\ op = "parse_query"
    /\ arg.pattern = <<"a", "b", " ", "!", "b", "$">>
    /\ Len(res) = 1
    /\ Len(res[1]) = 2
    /\ res[1][1] = Matcher("fuzzy", <<"a", "b">>)
    /\ res[1][2] = Matcher("inverse-suffix-exact", <<"b">>)

---------------------------------------------------------------------------
(* Claims about compute_score *)

---------------------------------------------------------------------------
(* Claims about the pattern chunker *)

\* the start indices of the chunks of a searcher
ChunkStarts(bs) == {bs.chunks[k].start_index : k \in 1..Len(bs.chunks)}

\* the chunks of a pattern longer than MAX_BITS: each MAX_BITS wide and the
\* text of the pattern at its start_index, starting at 0, MAX_BITS,
\* 2 * MAX_BITS, ... and at the length less MAX_BITS, every position of the
\* pattern in one of them
ChunksOfLong(bs) ==
    LET m == Len(bs.pattern)
    IN  /\ \A k \in 1..Len(bs.chunks) :
              /\ Len(bs.chunks[k].pattern) = MAX_BITS
              /\ bs.chunks[k].start_index + MAX_BITS <= m
              /\ bs.chunks[k].pattern =
                     SubSeq(bs.pattern, bs.chunks[k].start_index + 1,
                            bs.chunks[k].start_index + MAX_BITS)
        /\ ChunkStarts(bs) =
               {q * MAX_BITS : q \in 0..((m \div MAX_BITS) - 1)}
                   \cup {m - MAX_BITS}
        /\ \A p \in 0..(m - 1) :
              \E s \in ChunkStarts(bs) : s <= p /\ p < s + MAX_BITS

\* the one chunk of a pattern no longer than MAX_BITS
ChunkOfShort(bs) ==
    /\ Len(bs.chunks) = 1
    /\ bs.chunks[1].start_index = 0
    /\ bs.chunks[1].pattern = bs.pattern

\* C25 as stated: for a pattern of length m > W, BitmapSearch builds chunks
\* of width exactly W starting at 0, W, 2W, ... and a final chunk starting at
\* m - W, so that every pattern position lies in a chunk, each chunk's
\* start_index being the offset of its text within the pattern; for m <= W
\* there is exactly one chunk with start_index 0.
C25_Chunks ==
    op = "new" =>
        IF Len(res.pattern) > MAX_BITS THEN ChunksOfLong(res)
        ELSE ChunkOfShort(res)

\* C25 amended: the same, the one chunk being built for 1 <= m <= W; for the
\* empty pattern BitmapSearch builds no chunk.
C25_ChunksOfNonEmpty ==
    op = "new" =>
        IF Len(res.pattern) > MAX_BITS THEN ChunksOfLong(res)
        ELSE IF Len(res.pattern) >= 1 THEN ChunkOfShort(res)
        ELSE res.chunks = <<>>

\* a pattern of two chunks' width and a remainder was split into three
\* chunks, the last one overlapping the second
C25_Witness ==
    /\ op = "new"
    /\ Len(res.pattern) = 2 * MAX_BITS + 1
    /\ Len(res.chunks) = 3
    /\ res.chunks[3].start_index = MAX_BITS + 1
    /\ res.chunks[2].start_index = MAX_BITS

---------------------------------------------------------------------------
(* Claims about the score and the array accesses of the bitap kernel *)

\* C26: whenever the kernel search returns is_match = true, the returned
\* score is at most max(options.threshold, 0.001): the score of an accepted
\* match, never that of a later candidate rejected for exceeding the current
\* threshold.
C26_MatchScoreWithinThreshold ==
    (op = "search" /\ res.kind = "ok" /\ res.is_match)
        => FLeq(res.score, FMax(arg.options.threshold, Frac(1, 1000)))


\* C27: during the kernel search, for every text, every non-empty pattern of
\* length at most MAX_BITS and every options value, each index used on
\* match_mask, bit_arr and last_bit_arr lies within the array's bounds: the
\* search never aborts on an out-of-range access.
C27_AccessesInBounds ==
    (op = "search" /\ Len(arg.pattern) >= 1 /\ Len(arg.pattern) <= MAX_BITS)
        => res.kind # "panic"


---------------------------------------------------------------------------
(* Claims about search_in over several chunks *)

\* the searcher of the call
SearcherOfCall == BitmapSearch(arg.pattern, arg.options)

\* the kernel's result for the k-th chunk of the call
ChunkResult(k) ==
    search(Normalize(arg.text, arg.options),
           SearcherOfCall.chunks[k].pattern, SearcherOfCall.chunks[k].alphabet,
           [arg.options EXCEPT
               !.location = arg.options.location
                                + SearcherOfCall.chunks[k].start_index])

\* C28: for a pattern longer than MAX_BITS, search_in returns is_match = true
\* iff at least one chunk's kernel search reported a match, whatever the
\* position of that chunk among the chunks; when it returns is_match = false
\* the score is 1.0 and no indices are returned.
C28_AnyChunkMatches ==
    (op = "search_in" /\ res.kind = "ok"
        /\ Len(SearcherOfCall.pattern) > MAX_BITS)
        => /\ res.is_match <=>
                  \E k \in 1..Len(SearcherOfCall.chunks) :
                      ChunkResult(k).kind = "ok" /\ ChunkResult(k).is_match
           /\ ~res.is_match => res.score = FOne /\ res.indices = None


---------------------------------------------------------------------------
(* Claims about the conditions the logical query parser keeps *)

\* the value that was parsed, for both entry points
QueryValueOfCall ==
    IF arg.api = "parse_value" THEN arg.q ELSE to_value(arg.q)

RECURSIVE ConditionLeaves(_)
RECURSIVE ConditionLeavesFrom(_, _)
RECURSIVE MemberLeavesFrom(_, _)

\* the leaf of a well-formed $path/$val pair of an object, if it has one
PathConditionLeaf(o) ==
    IF /\ JGetKey(JObj(o), PATH).some
       /\ JGetKey(JObj(o), PATH).v.t = "arr"
       /\ \A k \in 1..Len(JGetKey(JObj(o), PATH).v.a) :
              JGetKey(JObj(o), PATH).v.a[k].t = "str"
       /\ JGetKey(JObj(o), PATTERN).some
       /\ JGetKey(JObj(o), PATTERN).v.t = "str"
    THEN <<LeafNode(join([k \in 1..Len(JGetKey(JObj(o), PATH).v.a) |->
                             JGetKey(JObj(o), PATH).v.a[k].s], <<".">>),
                    JGetKey(JObj(o), PATTERN).v.s)>>
    ELSE <<>>

\* the leaves of the conditions of the members of an object from the k-th on:
\* a key with a string value, a $path/$val pair, and the conditions below
\* $and and $or
MemberLeavesFrom(o, k) ==
    IF k > Len(o) THEN <<>>
    ELSE (IF o[k][1] \in {AND, OR} THEN ConditionLeaves(o[k][2])
          ELSE IF o[k][1] = PATH THEN PathConditionLeaf(o)
          ELSE IF o[k][1] = PATTERN THEN <<>>
          ELSE IF o[k][2].t = "str" THEN <<LeafNode(o[k][1], o[k][2].s)>>
          ELSE <<>>)
         \o MemberLeavesFrom(o, k + 1)

\* the leaves of the conditions of the items of an array from the k-th on
ConditionLeavesFrom(arr, k) ==
    IF k > Len(arr) THEN <<>>
    ELSE ConditionLeaves(arr[k]) \o ConditionLeavesFrom(arr, k + 1)

\* the leaves of the conditions a query value holds
ConditionLeaves(v) ==
    IF v.t = "obj" THEN MemberLeavesFrom(v.o, 1)
    ELSE IF v.t = "arr" THEN ConditionLeavesFrom(v.a, 1)
    ELSE <<>>

RECURSIVE TreeLeaves(_)
RECURSIVE TreeLeavesFrom(_, _)

\* the leaves of the children of a node from the k-th on
TreeLeavesFrom(children, k) ==
    IF k > Len(children) THEN <<>>
    ELSE TreeLeaves(children[k]) \o TreeLeavesFrom(children, k + 1)

\* the leaves of a parsed tree
TreeLeaves(node) ==
    IF node.type = "Leaf" THEN <<node>>
    ELSE TreeLeavesFrom(node.children, 1)

\* how often a value occurs in a sequence
Occurrences(seq, x) == Cardinality({k \in 1..Len(seq) : seq[k] = x})

\* C29: the parser never silently drops a condition: for every input that
\* parses successfully, each key/value pair and each $path/$val pair of the
\* input appears as exactly one leaf of the resulting tree, also when an
\* object holds $and together with $or, a logical operator together with
\* plain keys, or an operator whose value is not an array.
C29_NoConditionDropped ==
    (op \in {"parse_value", "parse"} /\ res.kind = "ok") =>
        \A k \in 1..Len(ConditionLeaves(QueryValueOfCall)) :
            Occurrences(TreeLeaves(res.node),
                        ConditionLeaves(QueryValueOfCall)[k])
                = Occurrences(ConditionLeaves(QueryValueOfCall),
                              ConditionLeaves(QueryValueOfCall)[k])


---------------------------------------------------------------------------
(* Claims about the termination of the include matcher *)

\* C30: IncludeMatch::search terminates and returns a result for every
\* pattern and every text, the empty pattern of the bare token ' included:
\* a call of the matcher, or of a query made of that one token, never aborts
\* and never loops without advancing the scan location.
C30_IncludeTerminates ==
    /\ (op = "matcher_search" /\ arg.type = "include") => res.kind = "ok"
    /\ (op = "extended_search_in" /\ arg.pattern = <<"'">>) => res.kind = "ok"

====
